---------------------------- MODULE Spec2Model ----------------------------
(***************************************************************************)
(* merval: a standalone validator for Mermaid diagram text.                *)
(*                                                                         *)
(* The model follows the call  validateMermaid(mermaidCode, target) :      *)
(* the input-shape checks, the Lexer (character by character), the         *)
(* recursive-descent Parser (one action per iteration of a grammar loop)   *)
(* and the version-compatibility post-processing.                          *)
(*                                                                         *)
(* A JavaScript string is a sequence of one-character strings; positions   *)
(* are 0-based as in the source, so the character at position p of s is    *)
(* s[p + 1].                                                               *)
(***************************************************************************)
EXTENDS Naturals, Integers, Sequences, FiniteSets, TLC

VARIABLES
  input,      \* the mermaidCode argument: its JavaScript type and its text
  target,     \* the targetMermaidVersion argument ("undefined" when absent)
  pc,         \* where the call stands
  tokens,     \* Parser.tokens
  position,   \* Parser.position
  errors,     \* Parser.errors
  linkCount,  \* Parser.linkCount
  stack,      \* the activations of parseFlowchart / parseSubgraph / other grammars
  ast,        \* the value returned by parseDiagram
  result,     \* the ValidationResult returned by validateMermaid
  spinning,   \* the last loop iteration left the parser as it was
  history     \* the calls of validateMermaid that returned before this one

vars == <<input, target, pc, tokens, position, errors, linkCount, stack, ast, result,
          spinning, history>>

(***************************************************************************)
(* Bounds of the model.                                                    *)
(***************************************************************************)
\* Statements after the header of a generated document.
MaxStmts == 3
\* Meta statements after the header of a generated document.
MaxMeta == 1
\* Calls of validateMermaid made one after the other.
MaxCalls == 3
\* Call-stack frames the JavaScript engine grants before it throws RangeError.
StackLimit == 10

(***************************************************************************)
(* Strings.                                                                *)
(***************************************************************************)
UpperCase == <<"A","B","C","D","E","F","G","H","I","J","K","L","M",
               "N","O","P","Q","R","S","T","U","V","W","X","Y","Z">>
LowerCase == <<"a","b","c","d","e","f","g","h","i","j","k","l","m",
               "n","o","p","q","r","s","t","u","v","w","x","y","z">>
Digits == {"0","1","2","3","4","5","6","7","8","9"}
Letters == {UpperCase[i] : i \in 1..26} \cup {LowerCase[i] : i \in 1..26}

\* /\s/
IsSpace(c) == c \in {" ", "\n", "\t", "\r"}
\* /\d/
IsDigit(c) == c \in Digits
\* /[a-zA-Z_]/
IsIdentStart(c) == c \in Letters \cup {"_"}
\* /[a-zA-Z0-9_'-]/
IsIdentPart(c) == c \in Letters \cup Digits \cup {"_", "'", "-"}

\* s[p], undefined (here "") beyond the end
CharAt(s, p) == IF p < Len(s) THEN s[p + 1] ELSE ""
\* s.slice(a, b)
Slice(s, a, b) == SubSeq(s, a + 1, b)
\* String.prototype.toLowerCase
LowerChar(c) ==
  IF \E i \in 1..26 : UpperCase[i] = c
    THEN LowerCase[CHOOSE i \in 1..26 : UpperCase[i] = c]
    ELSE c
toLowerCase(s) == [i \in 1..Len(s) |-> LowerChar(s[i])]
\* String.prototype.trim().length === 0
IsBlank(s) == \A i \in 1..Len(s) : IsSpace(s[i])


(***************************************************************************)
(* The words the generated documents are written with, as characters.     *)
(***************************************************************************)
Lexeme ==
  ("flowchart" :> <<"f", "l", "o", "w", "c", "h", "a", "r", "t">>)
  @@ ("graph" :> <<"g", "r", "a", "p", "h">>)
  @@ ("sequenceDiagram" :> <<"s", "e", "q", "u", "e", "n", "c", "e", "D", "i", "a", "g", "r", "a", "m">>)
  @@ ("classDiagram" :> <<"c", "l", "a", "s", "s", "D", "i", "a", "g", "r", "a", "m">>)
  @@ ("stateDiagram" :> <<"s", "t", "a", "t", "e", "D", "i", "a", "g", "r", "a", "m">>)
  @@ ("stateDiagram-v2" :> <<"s", "t", "a", "t", "e", "D", "i", "a", "g", "r", "a", "m", "-", "v", "2">>)
  @@ ("erDiagram" :> <<"e", "r", "D", "i", "a", "g", "r", "a", "m">>)
  @@ ("journey" :> <<"j", "o", "u", "r", "n", "e", "y">>)
  @@ ("gantt" :> <<"g", "a", "n", "t", "t">>)
  @@ ("pie" :> <<"p", "i", "e">>)
  @@ ("gitGraph" :> <<"g", "i", "t", "G", "r", "a", "p", "h">>)
  @@ ("mindmap" :> <<"m", "i", "n", "d", "m", "a", "p">>)
  @@ ("timeline" :> <<"t", "i", "m", "e", "l", "i", "n", "e">>)
  @@ ("xychart-beta" :> <<"x", "y", "c", "h", "a", "r", "t", "-", "b", "e", "t", "a">>)
  @@ ("block-beta" :> <<"b", "l", "o", "c", "k", "-", "b", "e", "t", "a">>)
  @@ ("TD" :> <<"T", "D">>)
  @@ ("A" :> <<"A">>)
  @@ ("B" :> <<"B">>)
  @@ ("C" :> <<"C">>)
  @@ ("S" :> <<"S">>)
  @@ ("x" :> <<"x">>)
  @@ ("foo" :> <<"f", "o", "o">>)
  @@ ("as" :> <<"a", "s">>)
  @@ ("for" :> <<"f", "o", "r">>)
  @@ ("end" :> <<"e", "n", "d">>)
  @@ ("END" :> <<"E", "N", "D">>)
  @@ ("classDef" :> <<"c", "l", "a", "s", "s", "D", "e", "f">>)
  @@ ("class" :> <<"c", "l", "a", "s", "s">>)
  @@ ("linkStyle" :> <<"l", "i", "n", "k", "S", "t", "y", "l", "e">>)
  @@ ("style" :> <<"s", "t", "y", "l", "e">>)
  @@ ("click" :> <<"c", "l", "i", "c", "k">>)
  @@ ("note" :> <<"n", "o", "t", "e">>)
  @@ ("direction" :> <<"d", "i", "r", "e", "c", "t", "i", "o", "n">>)
  @@ ("title" :> <<"t", "i", "t", "l", "e">>)
  @@ ("subgraph" :> <<"s", "u", "b", "g", "r", "a", "p", "h">>)
  @@ ("participant" :> <<"p", "a", "r", "t", "i", "c", "i", "p", "a", "n", "t">>)
  @@ ("activate" :> <<"a", "c", "t", "i", "v", "a", "t", "e">>)
  @@ ("x-axis" :> <<"x", "-", "a", "x", "i", "s">>)
  @@ ("y-axis" :> <<"y", "-", "a", "x", "i", "s">>)
  @@ ("bar" :> <<"b", "a", "r">>)
  @@ ("line" :> <<"l", "i", "n", "e">>)
  @@ ("area" :> <<"a", "r", "e", "a">>)
  @@ ("scatter" :> <<"s", "c", "a", "t", "t", "e", "r">>)
  @@ ("series" :> <<"s", "e", "r", "i", "e", "s">>)
  @@ ("min" :> <<"m", "i", "n">>)
  @@ ("columns" :> <<"c", "o", "l", "u", "m", "n", "s">>)
  @@ ("fill" :> <<"f", "i", "l", "l">>)
  @@ ("red" :> <<"r", "e", "d">>)
  @@ ("[" :> <<"[">>)
  @@ ("]" :> <<"]">>)
  @@ ("(" :> <<"(">>)
  @@ (")" :> <<")">>)
  @@ ("((" :> <<"(", "(">>)
  @@ ("))" :> <<")", ")">>)
  @@ ("{" :> <<"{">>)
  @@ ("}" :> <<"}">>)
  @@ ("," :> <<",">>)
  @@ (";" :> <<";">>)
  @@ (":" :> <<":">>)
  @@ ("|" :> <<"|">>)
  @@ ("=" :> <<"=">>)
  @@ ("-->" :> <<"-", "-", ">">>)
  @@ ("-->>" :> <<"-", "-", ">", ">">>)
  @@ ("-.->" :> <<"-", ".", "-", ">">>)
  @@ ("-.->>" :> <<"-", ".", "-", ">", ">">>)
  @@ ("==>" :> <<"=", "=", ">">>)
  @@ ("==>>" :> <<"=", "=", ">", ">">>)
  @@ ("->" :> <<"-", ">">>)
  @@ ("->>" :> <<"-", ">", ">">>)
  @@ ("0" :> <<"0">>)
  @@ ("1" :> <<"1">>)
  @@ ("2" :> <<"2">>)
  @@ ("5" :> <<"5">>)
  @@ ("%%c" :> <<"%", "%", "c">>)
  @@ ("%%{x}%%" :> <<"%", "%", "{", "x", "}", "%", "%">>)
  @@ ("\"hi\"" :> <<"\"", "h", "i", "\"">>)

(***************************************************************************)
(* Lexer (src/src/lexer/index.ts).                                         *)
(***************************************************************************)
Token(type, value, line, column, pos) ==
  [type |-> type, value |-> value, line |-> line, column |-> column, position |-> pos]

NoToken == Token("NONE", <<>>, 0, 0, 0)

\* The lexer's cursor: this.position, this.line, this.column.
Cursor(pos, line, column) == [position |-> pos, line |-> line, column |-> column]

\* const singleCharTokens
singleCharTokens ==
  ("[" :> "BRACKET_OPEN") @@ ("]" :> "BRACKET_CLOSE") @@ ("(" :> "PAREN_OPEN")
  @@ (")" :> "PAREN_CLOSE") @@ ("{" :> "BRACE_OPEN") @@ ("}" :> "BRACE_CLOSE")
  @@ ("," :> "COMMA") @@ (";" :> "SEMICOLON") @@ (":" :> "COLON") @@ ("|" :> "PIPE")

\* const keywords (the keys are lower case; the entries that map to IDENTIFIER
\* are the ones the source keeps "for special handling")
keywords ==
  (<<"g","r","a","p","h">> :> "GRAPH")
  @@ (<<"f","l","o","w","c","h","a","r","t">> :> "FLOWCHART")
  @@ (<<"s","e","q","u","e","n","c","e","d","i","a","g","r","a","m">> :> "SEQUENCE_DIAGRAM")
  @@ (<<"c","l","a","s","s","d","i","a","g","r","a","m">> :> "CLASS_DIAGRAM")
  @@ (<<"s","t","a","t","e","d","i","a","g","r","a","m">> :> "STATE_DIAGRAM")
  @@ (<<"s","t","a","t","e","d","i","a","g","r","a","m","-","v","2">> :> "STATE_DIAGRAM_V2")
  @@ (<<"e","r","d","i","a","g","r","a","m">> :> "ER_DIAGRAM")
  @@ (<<"j","o","u","r","n","e","y">> :> "JOURNEY")
  @@ (<<"g","a","n","t","t">> :> "GANTT")
  @@ (<<"p","i","e">> :> "PIE")
  @@ (<<"g","i","t","g","r","a","p","h">> :> "GITGRAPH")
  @@ (<<"m","i","n","d","m","a","p">> :> "MINDMAP")
  @@ (<<"t","i","m","e","l","i","n","e">> :> "TIMELINE")
  @@ (<<"x","y","c","h","a","r","t","-","b","e","t","a">> :> "XYCHART_BETA")
  @@ (<<"b","l","o","c","k","-","b","e","t","a">> :> "BLOCK_BETA")
  @@ (<<"p","a","r","t","i","c","i","p","a","n","t">> :> "PARTICIPANT")
  @@ (<<"a","c","t","i","v","a","t","e">> :> "ACTIVATION")
  @@ (<<"d","e","a","c","t","i","v","a","t","e">> :> "DEACTIVATION")
  @@ (<<"n","o","t","e">> :> "IDENTIFIER")
  @@ (<<"s","u","b","g","r","a","p","h">> :> "SUBGRAPH")
  @@ (<<"c","l","a","s","s","d","e","f">> :> "IDENTIFIER")
  @@ (<<"c","l","a","s","s">> :> "IDENTIFIER")
  @@ (<<"l","i","n","k","s","t","y","l","e">> :> "IDENTIFIER")
  @@ (<<"s","t","y","l","e">> :> "IDENTIFIER")

\* readComment: "%%" up to and including the end of the line
RECURSIVE lineEnd(_, _)
lineEnd(s, p) == IF p < Len(s) /\ s[p + 1] # "\n" THEN lineEnd(s, p + 1) ELSE p

readComment(s, L) ==
  LET start == L.position
      stop == lineEnd(s, start + 2)
      hasNewline == stop < Len(s) /\ CharAt(s, stop) = "\n"
      after == IF hasNewline
                 THEN Cursor(stop + 1, L.line + 1, 1)
                 ELSE Cursor(stop, L.line, L.column + (stop - start))
  IN [kind |-> "token",
      token |-> Token("COMMENT", Slice(s, start, after.position), L.line, L.column, start),
      L |-> after]

\* readDirective: the brace-counting loop
RECURSIVE directiveBody(_, _, _)
directiveBody(s, L, braceCount) ==
  IF L.position < Len(s) /\ braceCount > 0
    THEN LET c == CharAt(s, L.position) IN
         IF c = "{" THEN directiveBody(s, Cursor(L.position + 1, L.line, L.column), braceCount + 1)
         ELSE IF c = "}" THEN directiveBody(s, Cursor(L.position + 1, L.line, L.column), braceCount - 1)
         ELSE IF c = "\n" THEN directiveBody(s, Cursor(L.position + 1, L.line + 1, 1), braceCount)
         ELSE directiveBody(s, Cursor(L.position + 1, L.line, L.column + 1), braceCount)
    ELSE L

readDirective(s, L) ==
  LET start == L.position
      body == directiveBody(s, Cursor(start + 3, L.line, L.column + 3), 1)
      closed == /\ body.position + 1 < Len(s)
                /\ CharAt(s, body.position) = "%"
                /\ CharAt(s, body.position + 1) = "%"
      after == IF closed THEN Cursor(body.position + 2, body.line, body.column + 2) ELSE body
  IN [kind |-> "token",
      token |-> Token("DIRECTIVE", Slice(s, start, after.position), after.line, after.column, start),
      L |-> after]

\* readString: up to the next matching quote
RECURSIVE stringBody(_, _, _)
stringBody(s, L, quote) ==
  IF L.position < Len(s) /\ CharAt(s, L.position) # quote
    THEN IF CharAt(s, L.position) = "\n"
           THEN stringBody(s, Cursor(L.position + 1, L.line + 1, 1), quote)
           ELSE stringBody(s, Cursor(L.position + 1, L.line, L.column + 1), quote)
    ELSE L

readString(s, L) ==
  LET start == L.position
      body == stringBody(s, Cursor(start + 1, L.line, L.column + 1), CharAt(s, start))
      after == IF body.position < Len(s)
                 THEN Cursor(body.position + 1, body.line, body.column + 1)
                 ELSE body
  IN [kind |-> "token",
      token |-> Token("STRING", Slice(s, start, after.position), after.line, after.column, start),
      L |-> after]

\* readNumber
RECURSIVE numberEnd(_, _)
numberEnd(s, p) == IF p < Len(s) /\ IsDigit(s[p + 1]) THEN numberEnd(s, p + 1) ELSE p

readNumber(s, L) ==
  LET start == L.position
      stop == numberEnd(s, start)
      after == Cursor(stop, L.line, L.column + (stop - start))
  IN [kind |-> "token",
      token |-> Token("NUMBER", Slice(s, start, stop), after.line, after.column, start),
      L |-> after]

\* readIdentifier: a hyphen that starts "->" or "-->" ends the identifier
RECURSIVE identifierEnd(_, _)
identifierEnd(s, p) ==
  IF p < Len(s) /\ IsIdentPart(s[p + 1])
    THEN IF s[p + 1] = "-" /\ p + 1 < Len(s) /\ CharAt(s, p + 1) = ">" THEN p
         ELSE IF s[p + 1] = "-" /\ p + 2 < Len(s) /\ CharAt(s, p + 1) = "-"
                 /\ CharAt(s, p + 2) = ">" THEN p
         ELSE identifierEnd(s, p + 1)
    ELSE p

readIdentifier(s, L) ==
  LET start == L.position
      stop == identifierEnd(s, start)
      value == Slice(s, start, stop)
      lower == toLowerCase(value)
      type == IF lower \in DOMAIN keywords THEN keywords[lower] ELSE "IDENTIFIER"
      after == Cursor(stop, L.line, L.column + (stop - start))
  IN [kind |-> "token",
      token |-> Token(type, value, after.line, after.column, start),
      L |-> after]

\* An arrow token: the cursor moves first, then column is this.column - length + 1
arrowToken(type, value, L) ==
  LET after == Cursor(L.position + Len(value), L.line, L.column + Len(value))
  IN [kind |-> "token",
      token |-> Token(type, value, after.line, after.column - Len(value) + 1,
                      after.position - Len(value)),
      L |-> after]

\* A token of n characters positioned at the cursor (the cursor moves afterwards)
plainToken(type, value, L) ==
  [kind |-> "token",
   token |-> Token(type, value, L.line, L.column, L.position),
   L |-> Cursor(L.position + Len(value), L.line, L.column + Len(value))]

\* nextToken at an `=': the thick arrow `==>' unless a fourth character `>'
\* follows, else an equals token
equalsToken(s, L) ==
  LET p == L.position
      n == Len(s)
  IN
  IF p + 2 < n /\ CharAt(s, p + 1) = "=" /\ CharAt(s, p + 2) = ">"
    THEN IF p + 3 < n /\ CharAt(s, p + 3) = ">"
           THEN plainToken("EQUALS", <<"=">>, L)
           ELSE arrowToken("THICK_ARROW", <<"=", "=", ">">>, L)
    ELSE plainToken("EQUALS", <<"=">>, L)

\* Frames on the stack when tokenize calls nextToken:
\* validateMermaid, the Parser constructor, tokenize.
TokenizeFrames == 3

\* nextToken: skipping a white-space character is a recursive call, so `depth'
\* is the number of frames in use; beyond StackLimit the engine throws RangeError.
RECURSIVE nextToken(_, _, _)
nextToken(s, L, depth) ==
  LET p == L.position
      n == Len(s)
      c == CharAt(s, p)
  IN
  IF depth > StackLimit THEN [kind |-> "throw", token |-> NoToken, L |-> L]
  ELSE IF p >= n THEN [kind |-> "null", token |-> NoToken, L |-> L]
  ELSE IF IsSpace(c)
    THEN nextToken(s, IF c = "\n" THEN Cursor(p + 1, L.line + 1, 1)
                                  ELSE Cursor(p + 1, L.line, L.column + 1), depth + 1)
  ELSE IF c = "%" /\ p + 1 < n /\ CharAt(s, p + 1) = "%"
    THEN IF p + 2 < n /\ CharAt(s, p + 2) = "{" THEN readDirective(s, L) ELSE readComment(s, L)
  ELSE IF c = "(" /\ p + 1 < n /\ CharAt(s, p + 1) = "("
    THEN plainToken("DOUBLE_PAREN_OPEN", <<"(", "(">>, L)
  ELSE IF c = ")" /\ p + 1 < n /\ CharAt(s, p + 1) = ")"
    THEN plainToken("DOUBLE_PAREN_CLOSE", <<")", ")">>, L)
  ELSE IF c = "=" THEN equalsToken(s, L)
  ELSE IF c \in DOMAIN singleCharTokens
    THEN plainToken(singleCharTokens[c], <<c>>, L)
  ELSE IF c = "-" /\ p + 3 < n /\ CharAt(s, p + 1) = "." /\ CharAt(s, p + 2) = "-"
          /\ CharAt(s, p + 3) = ">"
    THEN IF p + 4 < n /\ CharAt(s, p + 4) = ">"
           THEN arrowToken("DOTTED_ARROW", <<"-", ".", "-", ">", ">">>, L)
           ELSE arrowToken("DOTTED_ARROW", <<"-", ".", "-", ">">>, L)
  ELSE IF c = "-" /\ p + 2 < n /\ CharAt(s, p + 1) = "-" /\ CharAt(s, p + 2) = ">"
    THEN IF p + 3 < n /\ CharAt(s, p + 3) = ">"
           THEN arrowToken("ARROW", <<"-", "-", ">", ">">>, L)
           ELSE arrowToken("ARROW", <<"-", "-", ">">>, L)
  ELSE IF c = "-" /\ p + 1 < n /\ CharAt(s, p + 1) = ">"
    THEN IF p + 2 < n /\ CharAt(s, p + 2) = ">"
           THEN arrowToken("SEQUENCE_ARROW", <<"-", ">", ">">>, L)
           ELSE arrowToken("SEQUENCE_ARROW", <<"-", ">">>, L)
  ELSE IF c = "\"" \/ c = "'" THEN readString(s, L)
  ELSE IF IsDigit(c) THEN readNumber(s, L)
  ELSE IF IsIdentStart(c) THEN readIdentifier(s, L)
  ELSE plainToken("IDENTIFIER", <<c>>, L)

\* tokenize: the tokens followed by one EOF token at the final cursor;
\* `threw' when nextToken exhausted the stack.
RECURSIVE tokenizeFrom(_, _, _)
tokenizeFrom(s, L, acc) ==
  LET r == nextToken(s, L, TokenizeFrames + 1) IN
  IF r.kind = "throw" THEN [threw |-> TRUE, tokens |-> <<>>]
  ELSE IF r.kind = "null"
    THEN [threw |-> FALSE,
          tokens |-> Append(acc, Token("EOF", <<>>, r.L.line, r.L.column, r.L.position))]
  ELSE tokenizeFrom(s, r.L, Append(acc, r.token))

tokenize(s) == tokenizeFrom(s, Cursor(0, 1, 1), <<>>)

(***************************************************************************)
(* Parser (src/src/parser/index.ts, class Parser): cursor and diagnostics. *)
(* The operators take the token array and a parser state                   *)
(*   P = [position, errors, linkCount]                                     *)
(* and return the state the method leaves behind.                          *)
(***************************************************************************)
\* A JavaScript `undefined' where a string is expected (label, to, direction).
Undefined == <<"undefined">>

currentToken(toks, pos) == IF pos >= Len(toks) THEN toks[Len(toks)] ELSE toks[pos + 1]

advance(toks, pos) == IF pos < Len(toks) THEN pos + 1 ELSE pos

isAtEnd(toks, pos) == pos >= Len(toks) \/ currentToken(toks, pos).type = "EOF"

\* peekToken: null is NoToken, which has no type and no value of any token
peekToken(toks, pos) == IF pos + 1 >= Len(toks) THEN NoToken ELSE toks[pos + 2]

Diagnostic(token, message, code) ==
  [line |-> token.line, column |-> token.column, message |-> message, code |-> code]

addError(errs, token, message, code) == Append(errs, Diagnostic(token, message, code))

PState(pos, errs, links) == [position |-> pos, errors |-> errs, linkCount |-> links]

\* parts.join(' ')
RECURSIVE joinSpace(_)
joinSpace(parts) ==
  IF Len(parts) = 0 THEN <<>>
  ELSE IF Len(parts) = 1 THEN parts[1]
  ELSE parts[1] \o <<" ">> \o joinSpace(Tail(parts))

\* value.slice(1, -1)
unquote(value) == Slice(value, 1, Len(value) - 1)

\* while (!isAtEnd() && type !== SEMICOLON && type !== EOF) advance();
\* if (type === SEMICOLON) advance();
RECURSIVE untilSemicolon(_, _)
untilSemicolon(toks, pos) ==
  IF ~isAtEnd(toks, pos) /\ currentToken(toks, pos).type \notin {"SEMICOLON", "EOF"}
    THEN untilSemicolon(toks, advance(toks, pos))
    ELSE pos

skipUntilSemicolon(toks, pos) ==
  LET stop == untilSemicolon(toks, pos) IN
  IF currentToken(toks, stop).type = "SEMICOLON" THEN advance(toks, stop) ELSE stop

\* The label loops of parseNode, parseArrow and collectIdentifiersAsLabel: the
\* values of the tokens of the given types are collected and joined. The
\* token array ends with EOF, so the loops without the !isAtEnd() test stop
\* where the loop with it stops.
RECURSIVE collectLabel(_, _, _, _)
collectLabel(toks, pos, types, parts) ==
  IF currentToken(toks, pos).type \in types /\ ~isAtEnd(toks, pos)
    THEN collectLabel(toks, advance(toks, pos), types,
                      Append(parts, currentToken(toks, pos).value))
    ELSE [position |-> pos, label |-> joinSpace(parts)]

collectIdentifiersAsLabel(toks, pos, includeNumbers) ==
  collectLabel(toks, pos,
               IF includeNumbers THEN {"IDENTIFIER", "NUMBER"} ELSE {"IDENTIFIER"}, <<>>)

(***************************************************************************)
(* Flowchart elements.                                                     *)
(***************************************************************************)
Element(type, token, id, label, shape, to, children) ==
  [type |-> type, line |-> token.line, column |-> token.column, id |-> id,
   label |-> label, shape |-> shape, to |-> to, children |-> children]

\* { type: 'processed', line, column }: a statement that builds no element
Processed(token) == Element("processed", token, Undefined, Undefined, "none", Undefined, <<>>)

\* parseFlowchartElement returned null
NoElement == Element("null", NoToken, Undefined, Undefined, "none", Undefined, <<>>)

\* The recovery scan of parseNode after a missing closing delimiter
RecoveryStops(closeType) == {closeType, "ARROW", "DOTTED_ARROW", "EOF"}

RECURSIVE recoverTo(_, _, _)
recoverTo(toks, pos, closeType) ==
  IF ~isAtEnd(toks, pos) /\ currentToken(toks, pos).type \notin RecoveryStops(closeType)
    THEN recoverTo(toks, advance(toks, pos), closeType)
    ELSE pos

\* One shape of parseNode, from the token after the opening delimiter:
\* the label, then the closing delimiter or the recovery.
nodeShape(toks, P, closeType, labelTypes, message) ==
  LET first == currentToken(toks, P.position)
      lab == IF first.type = "STRING"
               THEN [position |-> advance(toks, P.position), label |-> unquote(first.value)]
             ELSE IF first.type \in labelTypes
               THEN collectLabel(toks, P.position, labelTypes, <<>>)
             ELSE [position |-> P.position, label |-> Undefined]
      closer == currentToken(toks, lab.position)
  IN IF closer.type = closeType
       THEN [P |-> PState(advance(toks, lab.position), P.errors, P.linkCount),
             label |-> lab.label]
       ELSE LET stop == recoverTo(toks, lab.position, closeType) IN
            [P |-> PState(IF currentToken(toks, stop).type = closeType
                            THEN advance(toks, stop) ELSE stop,
                          addError(P.errors, closer, message, "PARSE_ERROR"),
                          P.linkCount),
             label |-> lab.label]

parseNode(toks, P) ==
  LET idToken == currentToken(toks, P.position)
      afterId == PState(advance(toks, P.position), P.errors, P.linkCount)
      open == currentToken(toks, afterId.position)
      body == PState(advance(toks, afterId.position), P.errors, P.linkCount)
  IN
  IF idToken.type = "EOF"
    THEN [P |-> PState(P.position,
                       addError(P.errors, idToken, "Expected node identifier", "MISSING_NODE"),
                       P.linkCount),
          node |-> Element("node", idToken, <<>>, Undefined, "rect", Undefined, <<>>)]
  ELSE IF open.type = "BRACKET_OPEN"
    THEN LET r == nodeShape(toks, body, "BRACKET_CLOSE", {"IDENTIFIER", "NUMBER"},
                            "Expected closing bracket ]")
         IN [P |-> r.P,
             node |-> Element("node", idToken, idToken.value, r.label, "rect", Undefined, <<>>)]
  ELSE IF open.type = "PAREN_OPEN"
    THEN LET r == nodeShape(toks, body, "PAREN_CLOSE", {"IDENTIFIER"},
                            "Expected closing parenthesis )")
         IN [P |-> r.P,
             node |-> Element("node", idToken, idToken.value, r.label, "round", Undefined, <<>>)]
  ELSE IF open.type = "DOUBLE_PAREN_OPEN"
    THEN LET r == nodeShape(toks, body, "DOUBLE_PAREN_CLOSE", {"IDENTIFIER"},
                            "Expected closing double parenthesis ))")
         IN [P |-> r.P,
             node |-> Element("node", idToken, idToken.value, r.label, "circle", Undefined, <<>>)]
  ELSE IF open.type = "BRACE_OPEN"
    THEN LET r == nodeShape(toks, body, "BRACE_CLOSE", {"IDENTIFIER"},
                            "Expected closing brace }")
         IN [P |-> r.P,
             node |-> Element("node", idToken, idToken.value, r.label, "diamond", Undefined, <<>>)]
  ELSE [P |-> afterId,
        node |-> Element("node", idToken, idToken.value, Undefined, "rect", Undefined, <<>>)]

\* The optional |label| of parseArrow, from the token after the arrow
arrowLabel(toks, P) ==
  LET p2 == advance(toks, P.position)
      first == currentToken(toks, p2)
      lab == IF first.type = "STRING"
               THEN [position |-> advance(toks, p2), label |-> unquote(first.value)]
             ELSE IF first.type \in {"IDENTIFIER", "NUMBER"}
               THEN collectLabel(toks, p2, {"IDENTIFIER", "NUMBER"}, <<>>)
             ELSE [position |-> p2, label |-> Undefined]
  IN
  IF currentToken(toks, P.position).type # "PIPE" THEN [P |-> P, label |-> Undefined]
  ELSE IF currentToken(toks, lab.position).type = "PIPE"
    THEN [P |-> PState(advance(toks, lab.position), P.errors, P.linkCount),
          label |-> lab.label]
  ELSE [P |-> PState(lab.position,
                     addError(P.errors, currentToken(toks, lab.position),
                              "Expected closing pipe |", "PARSE_ERROR"),
                     P.linkCount),
        label |-> lab.label]

\* The destination of parseArrow, after the label
arrowDestination(toks, arrowTok, labelled, toNode) ==
  IF isAtEnd(toks, labelled.P.position)
    THEN [P |-> PState(labelled.P.position,
                       addError(labelled.P.errors, arrowTok,
                                "Arrow must have a destination node", "INCOMPLETE_ARROW"),
                       labelled.P.linkCount),
          node |-> Element("arrow", arrowTok, Undefined, labelled.label, "none", Undefined,
                           <<>>)]
    ELSE [P |-> toNode.P,
          node |-> Element("arrow", arrowTok, Undefined, labelled.label, "none",
                           toNode.node.id, <<>>)]

arrowFrom(toks, arrowTok, labelled) ==
  arrowDestination(toks, arrowTok, labelled, parseNode(toks, labelled.P))

parseArrow(toks, P) ==
  arrowFrom(toks, currentToken(toks, P.position),
            arrowLabel(toks, PState(advance(toks, P.position), P.errors, P.linkCount + 1)))

(***************************************************************************)
(* Flowchart statements that build no element.                             *)
(***************************************************************************)
\* A string literal of the source, as the characters it holds
Str(word) == Lexeme[word]

\* parseInt(value) of a NUMBER token: the decimal value of its leading digits
DigitChars == <<"0", "1", "2", "3", "4", "5", "6", "7", "8", "9">>
DigitValue(c) == CHOOSE d \in 0..9 : DigitChars[d + 1] = c

RECURSIVE parseIntFrom(_, _, _)
parseIntFrom(value, i, acc) ==
  IF i <= Len(value) /\ IsDigit(value[i])
    THEN parseIntFrom(value, i + 1, 10 * acc + DigitValue(value[i]))
    ELSE acc

parseInt(value) == parseIntFrom(value, 1, 0)

\* The look-ahead of parseClassDef: a token with value '=' before the next
\* semicolon or EOF
RECURSIVE hasEqualsSyntax(_, _)
hasEqualsSyntax(toks, currentPos) ==
  IF currentPos < Len(toks) /\ toks[currentPos + 1].type \notin {"SEMICOLON", "EOF"}
    THEN IF toks[currentPos + 1].value = Str("=") THEN TRUE
         ELSE hasEqualsSyntax(toks, currentPos + 1)
    ELSE FALSE

parseClassDef(toks, P) ==
  LET classDefToken == currentToken(toks, P.position)
      p1 == advance(toks, P.position)
  IN PState(skipUntilSemicolon(toks, p1),
            IF hasEqualsSyntax(toks, p1)
              THEN addError(P.errors, classDefToken,
                            "classDef with equals syntax is not supported in flowcharts",
                            "UNSUPPORTED_CLASSDEF_EQUALS_SYNTAX")
              ELSE P.errors,
            P.linkCount)

parseClassAssignment(toks, P) ==
  LET p1 == advance(toks, P.position)
      p2 == IF currentToken(toks, p1).type = "IDENTIFIER" THEN advance(toks, p1) ELSE p1
      p3 == IF currentToken(toks, p2).type = "IDENTIFIER" THEN advance(toks, p2) ELSE p2
  IN PState(skipUntilSemicolon(toks, p3), P.errors, P.linkCount)

parseLinkStyle(toks, P) ==
  LET linkStyleToken == currentToken(toks, P.position)
      p1 == advance(toks, P.position)
      isNumber == currentToken(toks, p1).type = "NUMBER"
      linkIndex == parseInt(currentToken(toks, p1).value)
      p2 == IF isNumber THEN advance(toks, p1) ELSE p1
  IN PState(skipUntilSemicolon(toks, p2),
            IF isNumber /\ linkIndex >= P.linkCount
              THEN addError(P.errors, linkStyleToken, "linkStyle index is out of bounds",
                            "INVALID_LINKSTYLE_INDEX")
              ELSE P.errors,
            P.linkCount)

parseStyle(toks, P) ==
  PState(skipUntilSemicolon(toks, advance(toks, P.position)), P.errors, P.linkCount)

parseClickStatement(toks, P) ==
  PState(skipUntilSemicolon(toks, advance(toks, P.position)), P.errors, P.linkCount)

parseNoteStatement(toks, P) ==
  LET p1 == advance(toks, P.position)
      peeked == peekToken(toks, p1)
  IN IF peeked # NoToken
        /\ (peeked.value = Str("for") \/ peeked.type = "IDENTIFIER")
       THEN PState(p1,
                   addError(P.errors, currentToken(toks, p1),
                            "Standalone note statements are not supported in flowcharts",
                            "INVALID_NOTE_SYNTAX"),
                   P.linkCount)
       ELSE PState(skipUntilSemicolon(toks, p1), P.errors, P.linkCount)

parseDirectionStatement(toks, P) ==
  LET p1 == advance(toks, P.position) IN
  PState(IF currentToken(toks, p1).type = "IDENTIFIER" THEN advance(toks, p1) ELSE p1,
         P.errors, P.linkCount)

skipTitleDirective(toks, P) ==
  LET p1 == advance(toks, P.position)
      p2 == IF currentToken(toks, p1).type = "STRING" THEN advance(toks, p1) ELSE p1
  IN PState(skipUntilSemicolon(toks, p2), P.errors, P.linkCount)

\* isInlineComment: a token of the comment's line stands before it
RECURSIVE tokenBeforeOnLine(_, _, _)
tokenBeforeOnLine(toks, i, currentLine) ==
  IF i < 0 THEN FALSE
  ELSE IF toks[i + 1].line < currentLine THEN FALSE
  ELSE IF toks[i + 1].line = currentLine
          /\ toks[i + 1].type \notin {"WHITESPACE", "NEWLINE"} THEN TRUE
  ELSE tokenBeforeOnLine(toks, i - 1, currentLine)

isInlineComment(toks, commentIndex) ==
  tokenBeforeOnLine(toks, commentIndex - 1, toks[commentIndex + 1].line)

\* Token types parseFlowchartElement skips with advance() and returns null for
SkippedTypes ==
  {"SEMICOLON", "COLON", "COMMA", "EQUALS", "PIPE", "NUMBER", "STRING",
   "BRACKET_OPEN", "BRACKET_CLOSE", "PAREN_OPEN", "PAREN_CLOSE",
   "BRACE_OPEN", "BRACE_CLOSE"}

\* parseFlowchartElement up to its call of parseSubgraph: `call' tells the
\* caller that the element is the subgraph that starts at P.position.
Outcome(P, element, call) == [P |-> P, element |-> element, call |-> call]

\* The element parseNode or parseArrow returned
Built(r) == Outcome(r.P, r.node, "none")

parseFlowchartElement(toks, P) ==
  LET token == currentToken(toks, P.position)
      done(Q) == Outcome(Q, Processed(token), "none")
      skipped == PState(advance(toks, P.position), P.errors, P.linkCount)
  IN
  IF token.type = "IDENTIFIER" /\ toLowerCase(token.value) = Str("end")
    THEN done(PState(advance(toks, P.position),
                     addError(P.errors, token,
                              "Unexpected end keyword - found end without matching subgraph",
                              "UNMATCHED_END"),
                     P.linkCount))
  ELSE IF token.value = Str("classDef") THEN done(parseClassDef(toks, P))
  ELSE IF token.value = Str("class") THEN done(parseClassAssignment(toks, P))
  ELSE IF token.value = Str("linkStyle") THEN done(parseLinkStyle(toks, P))
  ELSE IF token.value = Str("style") THEN done(parseStyle(toks, P))
  ELSE IF token.value = Str("click") THEN done(parseClickStatement(toks, P))
  ELSE IF token.value = Str("note") THEN done(parseNoteStatement(toks, P))
  ELSE IF token.value = Str("direction") THEN done(parseDirectionStatement(toks, P))
  ELSE IF token.value = Str("title")
    THEN done(skipTitleDirective(toks,
                PState(P.position,
                       addError(P.errors, token,
                                "Title directive is not supported in flowcharts",
                                "UNSUPPORTED_TITLE_DIRECTIVE"),
                       P.linkCount)))
  ELSE IF token.type = "IDENTIFIER"
    THEN Built(parseNode(toks, P))
  ELSE IF token.type \in {"ARROW", "DOTTED_ARROW", "THICK_ARROW"}
    THEN Built(parseArrow(toks, P))
  ELSE IF token.type = "SUBGRAPH" THEN Outcome(P, NoElement, "parseSubgraph")
  ELSE IF token.type = "COMMENT"
    THEN done(PState(advance(toks, P.position),
                     IF isInlineComment(toks, P.position)
                       THEN addError(P.errors, token, "Inline comments are not supported",
                                     "INLINE_COMMENT_NOT_SUPPORTED")
                       ELSE P.errors,
                     P.linkCount))
  ELSE IF token.type = "DIRECTIVE" THEN done(skipped)
  ELSE IF token.type \in SkippedTypes THEN Outcome(skipped, NoElement, "none")
  ELSE Outcome(P, NoElement, "none")

(***************************************************************************)
(* Inputs.  A generated document is a header followed by statements; each  *)
(* item is a list of words of the Lexeme table, written with single spaces *)
(* between the words and with the item's separator in front of it.         *)
(***************************************************************************)
Sp == <<" ">>
Nl == <<"\n">>
Spaces(n) == [i \in 1..n |-> " "]

Item(sep, words) == [sep |-> sep, words |-> words]

RECURSIVE Words(_)
Words(words) ==
  IF Len(words) = 0 THEN <<>>
  ELSE IF Len(words) = 1 THEN Lexeme[words[1]]
  ELSE Lexeme[words[1]] \o Sp \o Words(Tail(words))

RECURSIVE Text(_)
Text(doc) ==
  IF Len(doc) = 0 THEN <<>>
  ELSE doc[1].sep \o Words(doc[1].words) \o Text(Tail(doc))

\* The mermaidCode argument: a JavaScript value that is a string or not
StringInput(doc) == [kind |-> "string", doc |-> doc]
NonStringInput(kind) == [kind |-> kind, doc |-> <<>>]

typeof(in) ==
  CASE in.kind = "string" -> "string"
    [] in.kind = "null" -> "object"
    [] in.kind = "undefined" -> "undefined"
    [] in.kind = "number" -> "number"

mermaidCode(in) == Text(in.doc)

\* All sequences of at most n statements with the given separators and wordings
Bodies(seps, wordings, n) ==
  UNION {[1..k -> {Item(s, w) : s \in seps, w \in wordings}] : k \in 0..n}

Document(header, body) == <<Item(<<>>, header)>> \o body
(***************************************************************************)
(* Results.                                                                *)
(***************************************************************************)
\* An AST root; `token' gives the place (a token or an activation)
Ast(type, token, name, body) ==
  [type |-> type, line |-> token.line, column |-> token.column, name |-> name, body |-> body]

\* A result without the ast property
NoAst == Ast("none", NoToken, Undefined, <<>>)

ValidationResult(isValid, diagramType, errs, tree) ==
  [isValid |-> isValid, diagramType |-> diagramType, errors |-> errs, ast |-> tree]

\* No value returned yet
NoResult == ValidationResult(FALSE, "none", <<>>, NoAst)

\* The diagnostics validateMermaid builds itself, all at line 1, column 1
EntryDiagnostic(message, code) == [line |-> 1, column |-> 1, message |-> message, code |-> code]

\* getMermaidVersionInfo().validatedAgainst
validatedAgainst == "11.12.0"

isMermaidVersionSupported(version) == version = validatedAgainst

\* JavaScript truthiness of the optional targetMermaidVersion string
Truthy(version) == version \notin {"undefined", ""}

(***************************************************************************)
(* validateMermaid: the input-shape checks.                                *)
(***************************************************************************)
Return(r) ==
  /\ result' = r
  /\ pc' = "done"

ValidateInput ==
  /\ pc = "validateMermaid"
  /\ IF typeof(input) # "string"
       THEN Return(ValidationResult(FALSE, "unknown",
                     <<EntryDiagnostic("Input must be a string", "INVALID_INPUT_TYPE")>>, NoAst))
     ELSE IF Len(mermaidCode(input)) = 0 \/ IsBlank(mermaidCode(input))
       THEN Return(ValidationResult(FALSE, "unknown",
                     <<EntryDiagnostic("Empty mermaid code", "EMPTY_INPUT")>>, NoAst))
     ELSE /\ pc' = "new Parser"
          /\ UNCHANGED result
  /\ UNCHANGED <<history, input, target, tokens, position, errors, linkCount, stack, ast, spinning>>

(***************************************************************************)
(* new Parser(mermaidCode): the constructor runs the lexer. A RangeError   *)
(* of the lexer's recursion is caught by validateMermaid's catch clause.   *)
(***************************************************************************)
NewParser ==
  /\ pc = "new Parser"
  /\ LET lexed == tokenize(mermaidCode(input)) IN
     IF lexed.threw
       THEN /\ Return(ValidationResult(FALSE, "unknown",
                        <<EntryDiagnostic("Validation error", "VALIDATION_ERROR")>>, NoAst))
            /\ UNCHANGED tokens
       ELSE /\ tokens' = lexed.tokens
            /\ pc' = "parse"
            /\ UNCHANGED result
  /\ UNCHANGED <<history, input, target, position, errors, linkCount, stack, ast, spinning>>

(***************************************************************************)
(* Parser.parse and parseDiagram up to the first loop of the grammar.      *)
(***************************************************************************)
\* An activation of a grammar method: its start token's place and its locals
\* (name: direction, subgraph id, chart title or series type; elems: nodes,
\* children, participants, xAxis, values or blocks; more: messages or data;
\* extra: yAxis or columns)
Frame(kind, token, name) ==
  [kind |-> kind, line |-> token.line, column |-> token.column, name |-> name,
   elems |-> <<>>, more |-> <<>>, extra |-> Undefined]

RECURSIVE skipDirectives(_, _)
skipDirectives(toks, pos) ==
  IF ~isAtEnd(toks, pos) /\ currentToken(toks, pos).type = "DIRECTIVE"
    THEN skipDirectives(toks, advance(toks, pos))
    ELSE pos

\* Grammar as it would be with the cases of gantt and journey exchanged
GrammarExchanged(type) ==
  CASE type \in {"GRAPH", "FLOWCHART"} -> "parseFlowchart"
    [] type = "SEQUENCE_DIAGRAM" -> "parseSequenceDiagram"
    [] type = "CLASS_DIAGRAM" -> "parseClassDiagram"
    [] type \in {"STATE_DIAGRAM", "STATE_DIAGRAM_V2"} -> "parseStateDiagram"
    [] type = "PIE" -> "parsePieChart"
    [] type = "JOURNEY" -> "parseGantt"
    [] type = "XYCHART_BETA" -> "parseXYChart"
    [] type = "GITGRAPH" -> "parseGitgraph"
    [] type = "MINDMAP" -> "parseMindmap"
    [] type = "TIMELINE" -> "parseTimeline"
    [] type = "GANTT" -> "parseJourney"
    [] type = "ER_DIAGRAM" -> "parseERDiagram"
    [] type = "BLOCK_BETA" -> "parseBlockDiagram"
    [] OTHER -> "unknown"

\* The grammar parseDiagram hands the token type to
Grammar(type) ==
  CASE type \in {"GRAPH", "FLOWCHART"} -> "parseFlowchart"
    [] type = "SEQUENCE_DIAGRAM" -> "parseSequenceDiagram"
    [] type = "CLASS_DIAGRAM" -> "parseClassDiagram"
    [] type \in {"STATE_DIAGRAM", "STATE_DIAGRAM_V2"} -> "parseStateDiagram"
    [] type = "PIE" -> "parsePieChart"
    [] type = "JOURNEY" -> "parseJourney"
    [] type = "XYCHART_BETA" -> "parseXYChart"
    [] type = "GITGRAPH" -> "parseGitgraph"
    [] type = "MINDMAP" -> "parseMindmap"
    [] type = "TIMELINE" -> "parseTimeline"
    [] type = "GANTT" -> "parseGantt"
    [] type = "ER_DIAGRAM" -> "parseERDiagram"
    [] type = "BLOCK_BETA" -> "parseBlockDiagram"
    [] OTHER -> "unknown"

\* parseFlowchart before its loop: the header and the optional direction
parseFlowchartStart(toks, start) ==
  LET startToken == currentToken(toks, start)
      p1 == advance(toks, start)
      hasDirection == currentToken(toks, p1).type = "IDENTIFIER"
  IN [position |-> IF hasDirection THEN advance(toks, p1) ELSE p1,
      frame |-> Frame("flowchart", startToken,
                      IF hasDirection THEN currentToken(toks, p1).value ELSE Undefined)]

(***************************************************************************)
(* The other grammars: one operator per iteration of the grammar's loop.   *)
(***************************************************************************)
\* String.prototype.trim
RECURSIVE trimStart(_)
trimStart(s) == IF Len(s) > 0 /\ IsSpace(s[1]) THEN trimStart(Tail(s)) ELSE s

RECURSIVE trimEnd(_)
trimEnd(s) ==
  IF Len(s) > 0 /\ IsSpace(s[Len(s)]) THEN trimEnd(SubSeq(s, 1, Len(s) - 1)) ELSE s

trim(s) == trimEnd(trimStart(s))

\* The name of a participant: a STRING token loses its quotes
nameOf(token) == IF token.type = "STRING" THEN unquote(token.value) ELSE token.value

parseParticipant(toks, P) ==
  LET startToken == currentToken(toks, P.position)
      p1 == advance(toks, P.position)
      nameToken == currentToken(toks, p1)
      p2 == advance(toks, p1)
      hasAs == currentToken(toks, p2).type = "IDENTIFIER"
               /\ currentToken(toks, p2).value = Str("as")
      p3 == advance(toks, p2)
      hasAlias == hasAs /\ currentToken(toks, p3).type \in {"IDENTIFIER", "STRING"}
  IN
  IF nameToken.type = "EOF" \/ isAtEnd(toks, p1)
     \/ nameToken.type \notin {"IDENTIFIER", "STRING"}
    THEN [P |-> PState(p1,
                       addError(P.errors, startToken,
                                "Participant declaration must have a name",
                                "MISSING_PARTICIPANT_NAME"),
                       P.linkCount),
          node |-> [type |-> "participant", line |-> startToken.line,
                    column |-> startToken.column, name |-> <<>>, alias |-> Undefined]]
    ELSE [P |-> PState(IF hasAlias THEN advance(toks, p3)
                       ELSE IF hasAs THEN p3 ELSE p2,
                       P.errors, P.linkCount),
          node |-> [type |-> "participant", line |-> startToken.line,
                    column |-> startToken.column, name |-> nameOf(nameToken),
                    alias |-> IF hasAlias THEN nameOf(currentToken(toks, p3))
                              ELSE Undefined]]

\* The rest of the line of a message: every token of the line gives its value
RECURSIVE messageParts(_, _, _, _)
messageParts(toks, pos, startLine, parts) ==
  LET token == currentToken(toks, pos) IN
  IF ~isAtEnd(toks, pos) /\ token.line = startLine /\ token.type # "EOF"
    THEN messageParts(toks, advance(toks, pos), startLine,
                      IF token.type \in {"WHITESPACE", "NEWLINE"} THEN parts
                      ELSE Append(parts, nameOf(token)))
    ELSE [position |-> pos, message |-> trim(joinSpace(parts))]

MessageNode(token, from, to, message, arrowType) ==
  [type |-> "message", line |-> token.line, column |-> token.column, from |-> from,
   to |-> to, message |-> message, arrowType |-> arrowType]

parseMessageLine(toks, P) ==
  LET fromToken == currentToken(toks, P.position)
      p1 == advance(toks, P.position)
      arrowTok == currentToken(toks, p1)
      isArrow == arrowTok.type \in {"SEQUENCE_ARROW", "ARROW"}
      arrowType == IF isArrow /\ arrowTok.value = Str("-->>") THEN "dotted" ELSE "solid"
      p2 == IF isArrow THEN advance(toks, p1) ELSE p1
      toToken == currentToken(toks, p2)
      p3 == advance(toks, p2)
      p4 == IF currentToken(toks, p3).type = "COLON" THEN advance(toks, p3) ELSE p3
      rest == messageParts(toks, p4, currentToken(toks, p4).line, <<>>)
  IN
  IF toToken.type = "EOF" \/ isAtEnd(toks, p2)
    THEN [P |-> PState(p2,
                       addError(P.errors, arrowTok,
                                "Incomplete message: arrow must have a destination participant",
                                "INCOMPLETE_MESSAGE"),
                       P.linkCount),
          node |-> MessageNode(fromToken, nameOf(fromToken), <<>>, <<>>, arrowType)]
    ELSE [P |-> PState(rest.position, P.errors, P.linkCount),
          node |-> MessageNode(fromToken, nameOf(fromToken), nameOf(toToken),
                               rest.message, arrowType)]

\* validateSequenceDiagram as it would be if a message could only name
\* participants that are declared
validateSequenceDiagramDeclared(errs, participants, messages) ==
  LET names == {participants[i].name : i \in 1..Len(participants)}
      undeclared == SelectSeq(messages, LAMBDA m : m.from \notin names \/ m.to \notin names)
  IN errs \o [i \in 1..Len(undeclared) |->
               Diagnostic(undeclared[i], "Participant is not declared",
                          "UNDECLARED_PARTICIPANT")]

\* validateSequenceDiagram: the body is empty, first use declares a participant
validateSequenceDiagram(errs, participants, messages) == errs

\* Names the sequence grammar rejects
SequenceStyling == {Str("classDef"), Str("class"), Str("linkStyle"), Str("style"),
                    Str("click"), Str("note")}

\* Names the class and state grammars reject
ClassStyling == {Str("linkStyle"), Str("style"), Str("click"), Str("note")}

\* One iteration of the loop of parseSequenceDiagram
sequenceStatement(toks, P, frame) ==
  LET token == currentToken(toks, P.position)
      peeked == peekToken(toks, P.position)
      skipped == PState(advance(toks, P.position), P.errors, P.linkCount)
  IN
  IF token.type = "PARTICIPANT"
    THEN LET r == parseParticipant(toks, P) IN
         [P |-> r.P, frame |-> [frame EXCEPT !.elems = Append(@, r.node)]]
  ELSE IF token.type = "DIRECTIVE" THEN [P |-> skipped, frame |-> frame]
  ELSE IF token.value \in SequenceStyling
    THEN [P |-> PState(skipUntilSemicolon(toks, P.position),
                       addError(P.errors, token,
                                "directive is not supported in sequence diagrams",
                                "UNSUPPORTED_STYLING_DIRECTIVE"),
                       P.linkCount),
          frame |-> frame]
  ELSE IF token.type \in {"IDENTIFIER", "STRING"}
          /\ peeked # NoToken /\ peeked.type \in {"SEQUENCE_ARROW", "ARROW"}
    THEN LET r == parseMessageLine(toks, P) IN
         [P |-> r.P, frame |-> [frame EXCEPT !.more = Append(@, r.node)]]
  ELSE [P |-> skipped, frame |-> frame]

\* One iteration of the loop of parseClassDiagram
classStatement(toks, P) ==
  LET token == currentToken(toks, P.position)
      p1 == advance(toks, P.position)
      p2 == IF currentToken(toks, p1).type = "IDENTIFIER" THEN advance(toks, p1) ELSE p1
      p3 == IF currentToken(toks, p2).type = "IDENTIFIER" THEN advance(toks, p2) ELSE p2
  IN
  IF token.type = "DIRECTIVE" THEN PState(p1, P.errors, P.linkCount)
  ELSE IF token.value = Str("classDef") THEN parseClassDef(toks, P)
  ELSE IF token.value = Str("class") THEN PState(p3, P.errors, P.linkCount)
  ELSE IF token.value \in ClassStyling
    THEN PState(skipUntilSemicolon(toks, P.position),
                addError(P.errors, token, "directive is not supported in class diagrams",
                         "UNSUPPORTED_STYLING_DIRECTIVE"),
                P.linkCount)
  ELSE IF token.type \in {"DOUBLE_PAREN_OPEN", "DOUBLE_PAREN_CLOSE"}
    THEN PState(p1,
                addError(P.errors, token,
                         "Double-parentheses syntax ((text)) is not supported in class diagrams",
                         "UNSUPPORTED_NODE_SHAPE"),
                P.linkCount)
  ELSE PState(p1, P.errors, P.linkCount)

\* One iteration of the loop of parseStateDiagram
stateStatement(toks, P) ==
  LET token == currentToken(toks, P.position) IN
  IF token.type = "DIRECTIVE" THEN PState(advance(toks, P.position), P.errors, P.linkCount)
  ELSE IF token.value = Str("classDef") THEN parseClassDef(toks, P)
  ELSE IF token.value = Str("class") THEN parseClassAssignment(toks, P)
  ELSE IF token.value \in ClassStyling
    THEN PState(skipUntilSemicolon(toks, P.position),
                addError(P.errors, token, "directive is not supported in state diagrams",
                         "UNSUPPORTED_STYLING_DIRECTIVE"),
                P.linkCount)
  ELSE PState(advance(toks, P.position), P.errors, P.linkCount)

\* One iteration of the loop of parseBlockDiagram
blockStatement(toks, P, frame) ==
  LET token == currentToken(toks, P.position)
      p1 == advance(toks, P.position)
      isNumber == currentToken(toks, p1).type = "NUMBER"
      p2 == advance(toks, p1)
      first == currentToken(toks, p2)
      hasLabel == first.type \in {"STRING", "IDENTIFIER"}
      p3 == IF hasLabel THEN advance(toks, p2) ELSE p2
      p4 == IF currentToken(toks, p3).type = "BRACKET_CLOSE" THEN advance(toks, p3) ELSE p3
  IN
  IF token.value = Str("columns")
    THEN [P |-> PState(IF isNumber THEN p2 ELSE p1, P.errors, P.linkCount),
          frame |-> IF isNumber
                      THEN [frame EXCEPT !.extra = parseInt(currentToken(toks, p1).value)]
                      ELSE frame]
  ELSE IF token.type = "IDENTIFIER" /\ currentToken(toks, p1).type = "BRACKET_OPEN"
    THEN [P |-> PState(p4, P.errors, P.linkCount),
          frame |-> [frame EXCEPT !.elems =
                       Append(@, [type |-> "block", line |-> token.line,
                                  column |-> token.column, id |-> token.value,
                                  label |-> IF hasLabel THEN nameOf(first) ELSE <<>>])]]
  ELSE [P |-> PState(p1, P.errors, P.linkCount), frame |-> frame]
\* const specialChars = /['"&<>(){}[\]|\\\/\s]/
specialChars == {"'", "\"", "&", "<", ">", "(", ")", "{", "}", "[", "]", "|", "\\", "/",
                 " ", "\n", "\t", "\r"}

\* isValidIdentifier(identifier, 'xychart-axis')
isValidIdentifier(identifier) == \A i \in 1..Len(identifier) : identifier[i] \notin specialChars

\* The y-axis statement of parseXYChart, from the token 'y-axis'
parseYAxis(toks, P, frame) ==
  LET p1 == advance(toks, P.position)
      isString == currentToken(toks, p1).type = "STRING"
      label == unquote(currentToken(toks, p1).value)
      p2 == advance(toks, p1)
      t2 == currentToken(toks, p2)
      p3 == advance(toks, p2)
      p4 == advance(toks, p3)
      hasMax == currentToken(toks, p3).value = Str("-->")
                /\ currentToken(toks, p4).type = "NUMBER"
  IN
  IF ~isString THEN [P |-> PState(p1, P.errors, P.linkCount), frame |-> frame]
  ELSE IF t2.value = Str("min")
    THEN [P |-> PState(p3,
                       addError(P.errors, t2, "y-axis syntax does not support min keyword",
                                "INVALID_Y_AXIS_SYNTAX"),
                       P.linkCount),
          frame |-> frame]
  ELSE IF t2.type # "NUMBER" THEN [P |-> PState(p2, P.errors, P.linkCount), frame |-> frame]
  ELSE IF currentToken(toks, p3).value # Str("-->")
    THEN [P |-> PState(p3, P.errors, P.linkCount), frame |-> frame]
  ELSE IF ~hasMax THEN [P |-> PState(p4, P.errors, P.linkCount), frame |-> frame]
  ELSE [P |-> PState(advance(toks, p4), P.errors, P.linkCount),
        frame |-> [frame EXCEPT !.extra =
                     [label |-> label, min |-> parseInt(t2.value),
                      max |-> parseInt(currentToken(toks, p4).value)]]]

\* yAxis || { label: '', min: 0, max: 100 }
DefaultYAxis == [label |-> <<>>, min |-> 0, max |-> 100]

\* One iteration of the outer loop of parseXYChart. `list' names the bracketed
\* list the statement has opened: "x-axis", "bar", "line" or "none".
xyStatement(toks, P, frame) ==
  LET token == currentToken(toks, P.position)
      p1 == advance(toks, P.position)
      t1 == currentToken(toks, p1)
      p2 == advance(toks, p1)
      plain(Q, f) == [P |-> Q, frame |-> f, list |-> "none"]
  IN
  IF token.type = "DIRECTIVE" THEN plain(PState(p1, P.errors, P.linkCount), frame)
  ELSE IF token.value = Str("title")
    THEN IF t1.type = "STRING"
           THEN plain(PState(p2, P.errors, P.linkCount),
                      [frame EXCEPT !.name = unquote(t1.value)])
           ELSE plain(PState(p1, P.errors, P.linkCount), frame)
  ELSE IF token.value = Str("x-axis")
    THEN IF t1.type = "BRACKET_OPEN"
           THEN [P |-> PState(p2, P.errors, P.linkCount), frame |-> frame, list |-> "x-axis"]
           ELSE plain(PState(p1,
                             addError(P.errors, t1,
                                      "x-axis must be followed by a bracketed list of labels",
                                      "INVALID_X_AXIS_SYNTAX"),
                             P.linkCount),
                      frame)
  ELSE IF token.value = Str("y-axis")
    THEN LET r == parseYAxis(toks, P, frame) IN plain(r.P, r.frame)
  ELSE IF token.value \in {Str("bar"), Str("line")}
    THEN IF t1.type = "BRACKET_OPEN"
           THEN [P |-> PState(p2, P.errors, P.linkCount), frame |-> frame,
                 list |-> IF token.value = Str("bar") THEN "bar" ELSE "line"]
           ELSE plain(PState(p1, P.errors, P.linkCount), frame)
  ELSE IF token.value \in {Str("area"), Str("scatter")}
    THEN plain(PState(p1,
                      addError(P.errors, token, "Chart type is not supported by Mermaid CLI",
                               "UNSUPPORTED_CHART_TYPE"),
                      P.linkCount),
               frame)
  ELSE IF token.value = Str("series")
    THEN plain(PState(p1,
                      addError(P.errors, token, "series syntax is not supported by Mermaid CLI",
                               "UNSUPPORTED_SERIES_SYNTAX"),
                      P.linkCount),
               frame)
  ELSE plain(PState(p1, P.errors, P.linkCount), frame)

\* advance(); if (type === COMMA) advance();  at the end of a list iteration
afterListItem(toks, pos) ==
  LET p1 == advance(toks, pos) IN
  IF currentToken(toks, p1).type = "COMMA" THEN advance(toks, p1) ELSE p1

\* validateXYChart as it would be if it asked for more than one series
validateXYChartTwoSeries(errs, data) ==
  IF Len(data) <= 1
    THEN Append(errs, EntryDiagnostic("No data provided for chart", "MISSING_DATA"))
    ELSE errs

\* validateXYChart: the diagnostic is built at line 1, column 1
validateXYChart(errs, data) ==
  IF Len(data) = 0
    THEN Append(errs, EntryDiagnostic("No data provided for chart", "MISSING_DATA"))
    ELSE errs

\* validateFlowchartConnections
RECURSIVE connectionErrors(_, _, _)
connectionErrors(errs, nodes, i) ==
  IF i >= Len(nodes) THEN errs
  ELSE connectionErrors(
         IF nodes[i].type = "node" /\ nodes[i + 1].type = "node"
            /\ nodes[i].line = nodes[i + 1].line
           THEN Append(errs, [line |-> nodes[i + 1].line, column |-> nodes[i + 1].column,
                              message |-> "Adjacent nodes on same line without arrow connection",
                              code |-> "MISSING_ARROW"])
           ELSE errs,
         nodes, i + 1)

validateFlowchartConnections(errs, nodes) == connectionErrors(errs, nodes, 1)

\* getDiagramType
RECURSIVE firstNonDirective(_, _)
firstNonDirective(toks, i) ==
  IF i > Len(toks) THEN NoToken
  ELSE IF toks[i].type # "DIRECTIVE" THEN toks[i]
  ELSE firstNonDirective(toks, i + 1)

getDiagramType(toks) ==
  LET type == firstNonDirective(toks, 1).type IN
  CASE type \in {"GRAPH", "FLOWCHART"} -> "flowchart"
    [] type = "SEQUENCE_DIAGRAM" -> "sequence"
    [] type = "CLASS_DIAGRAM" -> "class"
    [] type \in {"STATE_DIAGRAM", "STATE_DIAGRAM_V2"} -> "state"
    [] type = "ER_DIAGRAM" -> "er"
    [] type = "JOURNEY" -> "journey"
    [] type = "GANTT" -> "gantt"
    [] type = "PIE" -> "pie"
    [] type = "GITGRAPH" -> "gitgraph"
    [] type = "MINDMAP" -> "mindmap"
    [] type = "TIMELINE" -> "timeline"
    [] type = "XYCHART_BETA" -> "xychart"
    [] type = "BLOCK_BETA" -> "block"
    [] OTHER -> "unknown"

\* parseSubgraph before its loop: the id and the optional bracketed label
parseSubgraphStart(toks, start) ==
  LET startToken == currentToken(toks, start)
      p1 == advance(toks, start)
      p2 == advance(toks, p1)
      p3 == advance(toks, p2)
      p4 == IF currentToken(toks, p3).type = "STRING" THEN advance(toks, p3) ELSE p3
      p5 == IF currentToken(toks, p4).type = "BRACKET_CLOSE" THEN advance(toks, p4) ELSE p4
  IN [position |-> IF currentToken(toks, p2).type = "BRACKET_OPEN" THEN p5 ELSE p2,
      frame |-> Frame("subgraph", startToken, currentToken(toks, p1).value)]

\* The method of each header's grammar that only consumes its tokens
ConsumeGrammars ==
  {"parsePieChart", "parseJourney", "parseGitgraph", "parseMindmap", "parseTimeline",
   "parseGantt", "parseERDiagram"}

\* The type of the root each grammar returns
RootType(grammar) ==
  CASE grammar = "parseFlowchart" -> "flowchart"
    [] grammar = "parseSequenceDiagram" -> "sequence"
    [] grammar = "parseClassDiagram" -> "class"
    [] grammar = "parseStateDiagram" -> "state"
    [] grammar = "parsePieChart" -> "pie"
    [] grammar = "parseJourney" -> "journey"
    [] grammar = "parseXYChart" -> "xychart"
    [] grammar = "parseGitgraph" -> "gitgraph"
    [] grammar = "parseMindmap" -> "mindmap"
    [] grammar = "parseTimeline" -> "timeline"
    [] grammar = "parseGantt" -> "gantt"
    [] grammar = "parseERDiagram" -> "er"
    [] grammar = "parseBlockDiagram" -> "block"
    [] OTHER -> "unknown"

\* Parser.parse as it would be without its three assignments: the fields as
\* they are
FieldsKept == PState(position, errors, linkCount)

\* Parser.parse: this.errors = []; this.position = 0; this.linkCount = 0
FieldsReset == PState(0, <<>>, 0)

ParseDiagram ==
  /\ pc = "parse"
  /\ LET start == skipDirectives(tokens, FieldsReset.position)
         token == currentToken(tokens, start)
         grammar == Grammar(token.type)
         flow == parseFlowchartStart(tokens, start)
     IN
     /\ linkCount' = IF grammar = "parseFlowchart" THEN 0 ELSE FieldsReset.linkCount
     /\ IF grammar = "unknown"
          THEN /\ errors' = addError(FieldsReset.errors, token, "Unsupported diagram type", "PARSE_ERROR")
               /\ position' = start
               /\ ast' = Ast("unknown", token, Undefined, <<>>)
               /\ pc' = "return"
               /\ UNCHANGED stack
        ELSE IF grammar = "parseFlowchart"
          THEN /\ errors' = FieldsReset.errors
               /\ position' = flow.position
               /\ stack' = <<flow.frame>>
               /\ pc' = grammar
               /\ UNCHANGED ast
        ELSE /\ errors' = FieldsReset.errors
             /\ position' = advance(tokens, start)
             /\ stack' = <<[Frame(RootType(grammar), token, Undefined) EXCEPT
                              !.extra = IF grammar = "parseXYChart" THEN DefaultYAxis
                                        ELSE @]>>
             /\ pc' = grammar
             /\ UNCHANGED ast
  /\ UNCHANGED <<history, input, target, tokens, result, spinning>>

(***************************************************************************)
(* The grammar loops: one action per iteration, the method's return when   *)
(* the loop condition fails.                                               *)
(***************************************************************************)
Here == PState(position, errors, linkCount)

SetParser(Q) ==
  /\ position' = Q.position
  /\ errors' = Q.errors
  /\ linkCount' = Q.linkCount

\* !this.isAtEnd() && this.currentToken().type !== TokenType.EOF
LoopRuns == ~isAtEnd(tokens, position) /\ currentToken(tokens, position).type # "EOF"

Top == stack[Len(stack)]

\* A loop iteration that changes nothing the loop reads will repeat for ever
Spin ==
  spinning' = (<<pc', position', errors', linkCount', stack'>>
               = <<pc, position, errors, linkCount, stack>>)

SetTop(frame) == stack' = [stack EXCEPT ![Len(stack)] = frame]

\* The grammar method returns its root to parseDiagram
ReturnAst(tree) ==
  /\ ast' = tree
  /\ stack' = <<>>
  /\ pc' = "return"
  /\ UNCHANGED result

\* Frames on the call stack when parseSubgraph runs at nesting level k:
\* validateMermaid, parse, parseDiagram, parseFlowchart, then
\* parseFlowchartElement and parseSubgraph once per level
SubgraphDepth(k) == 4 + 2 * k

\* parseFlowchartElement calls parseSubgraph at Q. Beyond the stack limit the
\* call throws RangeError, which the catch clause of Parser.parse turns into
\* its fallback result.
CallSubgraph(Q) ==
  IF SubgraphDepth(Len(stack)) > StackLimit
    THEN /\ SetParser(PState(Q.position,
                             addError(Q.errors, currentToken(tokens, Q.position),
                                      "Parse error", "PARSE_ERROR"),
                             Q.linkCount))
         /\ result' = ValidationResult(FALSE, "unknown",
                        addError(Q.errors, currentToken(tokens, Q.position),
                                 "Parse error", "PARSE_ERROR"),
                        NoAst)
         /\ stack' = <<>>
         /\ pc' = "version"
    ELSE /\ SetParser(PState(parseSubgraphStart(tokens, Q.position).position, Q.errors,
                             Q.linkCount))
         /\ stack' = Append(stack, parseSubgraphStart(tokens, Q.position).frame)
         /\ pc' = "parseSubgraph"
         /\ UNCHANGED result

\* diagramTypes as it would be without the pie and sequence headers
diagramTypesShort ==
  {"CLASS_DIAGRAM", "STATE_DIAGRAM", "STATE_DIAGRAM_V2", "ER_DIAGRAM",
   "JOURNEY", "GANTT", "GITGRAPH", "MINDMAP", "TIMELINE", "XYCHART_BETA"}

\* Headers at which the loop of parseFlowchart breaks
diagramTypes ==
  {"SEQUENCE_DIAGRAM", "CLASS_DIAGRAM", "STATE_DIAGRAM", "STATE_DIAGRAM_V2", "ER_DIAGRAM",
   "JOURNEY", "GANTT", "PIE", "GITGRAPH", "MINDMAP", "TIMELINE", "XYCHART_BETA"}

\* What the loop of parseFlowchart does with the element r
FlowchartElement(r) ==
  IF r.call = "parseSubgraph" THEN CallSubgraph(r.P)
  ELSE IF r.element.type = "null"
    THEN /\ SetParser(PState(advance(tokens, r.P.position), r.P.errors, r.P.linkCount))
         /\ UNCHANGED <<stack, pc, result>>
  ELSE IF r.element.type = "processed"
    THEN /\ SetParser(r.P)
         /\ UNCHANGED <<stack, pc, result>>
  ELSE /\ SetParser(r.P)
       /\ SetTop([Top EXCEPT !.elems = Append(@, r.element)])
       /\ UNCHANGED <<pc, result>>

FlowchartLoop ==
  /\ pc = "parseFlowchart"
  /\ IF LoopRuns /\ currentToken(tokens, position).type \notin diagramTypes
       THEN /\ FlowchartElement(parseFlowchartElement(tokens, Here))
            /\ UNCHANGED ast
       ELSE /\ errors' = validateFlowchartConnections(errors, Top.elems)
            /\ ReturnAst(Ast("flowchart", Top, Top.name, Top.elems))
            /\ UNCHANGED <<position, linkCount>>
  /\ UNCHANGED <<history, input, target, tokens>>
  /\ Spin

\* AtEndKeyword as it would be if it compared the value without lowering it
\* against the upper-case keyword
AtEndKeywordUpper(toks, pos) ==
  /\ currentToken(toks, pos).type = "IDENTIFIER"
  /\ currentToken(toks, pos).value = Str("END")

\* currentToken is the `end' that closes a subgraph
AtEndKeyword(toks, pos) ==
  /\ currentToken(toks, pos).type = "IDENTIFIER"
  /\ toLowerCase(currentToken(toks, pos).value) = Str("end")

\* What the loop of parseSubgraph does with the child r
SubgraphElement(r) ==
  IF r.call = "parseSubgraph" THEN CallSubgraph(r.P)
  ELSE /\ SetParser(r.P)
       /\ IF r.element.type # "null"
            THEN SetTop([Top EXCEPT !.elems = Append(@, r.element)])
            ELSE UNCHANGED stack
       /\ UNCHANGED <<pc, result>>

SubgraphLoop ==
  /\ pc = "parseSubgraph"
  /\ IF ~isAtEnd(tokens, position) /\ ~AtEndKeyword(tokens, position)
       THEN SubgraphElement(parseFlowchartElement(tokens, Here))
       ELSE LET closed == AtEndKeyword(tokens, position)
                errs == IF closed THEN errors
                        ELSE addError(errors, currentToken(tokens, position),
                                      "Expected end to close subgraph",
                                      "MISSING_SUBGRAPH_END")
                subgraph == Element("subgraph", Top, Top.name, Undefined, "none",
                                    Undefined, Top.elems)
                caller == Len(stack) - 1
            IN /\ position' = IF closed THEN advance(tokens, position) ELSE position
               /\ errors' = validateFlowchartConnections(errs, Top.elems)
               /\ stack' = [SubSeq(stack, 1, caller) EXCEPT
                              ![caller].elems = Append(@, subgraph)]
               /\ pc' = IF caller = 1 THEN "parseFlowchart" ELSE "parseSubgraph"
               /\ UNCHANGED <<linkCount, result>>
  /\ UNCHANGED <<history, input, target, tokens, ast>>
  /\ Spin

\* A statement that changes the parser and the locals of its grammar method
Statement(r) ==
  /\ SetParser(r.P)
  /\ SetTop(r.frame)

SequenceLoop ==
  /\ pc = "parseSequenceDiagram"
  /\ IF LoopRuns
       THEN /\ Statement(sequenceStatement(tokens, Here, Top))
            /\ UNCHANGED <<pc, ast, result>>
       ELSE /\ errors' = validateSequenceDiagram(errors, Top.elems, Top.more)
            /\ ReturnAst(Ast("sequence", Top, Undefined,
                             [participants |-> Top.elems, messages |-> Top.more]))
            /\ UNCHANGED <<position, linkCount>>
  /\ UNCHANGED <<history, input, target, tokens>>
  /\ Spin

ClassLoop ==
  /\ pc = "parseClassDiagram"
  /\ IF LoopRuns
       THEN /\ SetParser(classStatement(tokens, Here))
            /\ UNCHANGED <<pc, stack, ast, result>>
       ELSE /\ ReturnAst(Ast("class", Top, Undefined, <<>>))
            /\ UNCHANGED <<position, errors, linkCount>>
  /\ UNCHANGED <<history, input, target, tokens>>
  /\ Spin

StateLoop ==
  /\ pc = "parseStateDiagram"
  /\ IF LoopRuns
       THEN /\ SetParser(stateStatement(tokens, Here))
            /\ UNCHANGED <<pc, stack, ast, result>>
       ELSE /\ ReturnAst(Ast("state", Top, Undefined, <<>>))
            /\ UNCHANGED <<position, errors, linkCount>>
  /\ UNCHANGED <<history, input, target, tokens>>
  /\ Spin

\* parsePieChart, parseJourney, parseGitgraph, parseMindmap, parseTimeline,
\* parseGantt and parseERDiagram: every token is skipped
ConsumeLoop ==
  /\ pc \in ConsumeGrammars
  /\ IF LoopRuns
       THEN /\ position' = advance(tokens, position)
            /\ UNCHANGED <<pc, stack, ast, result>>
       ELSE /\ ReturnAst(Ast(RootType(pc), Top, Undefined, <<>>))
            /\ UNCHANGED position
  /\ UNCHANGED <<history, input, target, tokens, errors, linkCount>>
  /\ Spin

BlockLoop ==
  /\ pc = "parseBlockDiagram"
  /\ IF LoopRuns
       THEN /\ Statement(blockStatement(tokens, Here, Top))
            /\ UNCHANGED <<pc, ast, result>>
       ELSE /\ ReturnAst(Ast("block", Top, Undefined,
                             [columns |-> Top.extra, blocks |-> Top.elems]))
            /\ UNCHANGED <<position, errors, linkCount>>
  /\ UNCHANGED <<history, input, target, tokens>>
  /\ Spin

\* A statement of an xychart: it may open the list of an x-axis or of a series
ChartStatement(r) ==
  /\ SetParser(r.P)
  /\ IF r.list = "x-axis"
       THEN /\ SetTop(r.frame)
            /\ pc' = "x-axis list"
     ELSE IF r.list \in {"bar", "line"}
       THEN /\ stack' = Append(stack, Frame("series", Top, r.list))
            /\ pc' = "series list"
     ELSE /\ SetTop(r.frame)
          /\ UNCHANGED pc

XYChartLoop ==
  /\ pc = "parseXYChart"
  /\ IF LoopRuns
       THEN /\ ChartStatement(xyStatement(tokens, Here, Top))
            /\ UNCHANGED <<ast, result>>
       ELSE /\ errors' = validateXYChart(errors, Top.more)
            /\ ReturnAst(Ast("xychart", Top, Top.name,
                             [xAxis |-> Top.elems,
                              yAxis |-> Top.extra,
                              data |-> Top.more]))
            /\ UNCHANGED <<position, linkCount>>
  /\ UNCHANGED <<history, input, target, tokens>>
  /\ Spin

\* One iteration of  while (type !== BRACKET_CLOSE)  of the x-axis statement
XAxisLoop ==
  /\ pc = "x-axis list"
  /\ LET token == currentToken(tokens, position) IN
     IF token.type # "BRACKET_CLOSE"
       THEN /\ position' = afterListItem(tokens, position)
            /\ errors' = IF token.type = "IDENTIFIER" /\ ~isValidIdentifier(token.value)
                           THEN addError(errors, token,
                                  "Identifier contains special characters and should be quoted",
                                  "INVALID_IDENTIFIER")
                           ELSE errors
            /\ IF token.type \in {"STRING", "IDENTIFIER"}
                 THEN SetTop([Top EXCEPT !.elems = Append(@, nameOf(token))])
                 ELSE UNCHANGED stack
            /\ UNCHANGED pc
       ELSE /\ position' = advance(tokens, position)
            /\ pc' = "parseXYChart"
            /\ UNCHANGED <<errors, stack>>
  /\ UNCHANGED <<history, input, target, tokens, linkCount, ast, result>>
  /\ Spin

\* One iteration of  while (type !== BRACKET_CLOSE)  of a bar or line statement
SeriesLoop ==
  /\ pc = "series list"
  /\ LET token == currentToken(tokens, position)
         chart == Len(stack) - 1
     IN
     IF token.type # "BRACKET_CLOSE"
       THEN /\ position' = afterListItem(tokens, position)
            /\ IF token.type = "NUMBER"
                 THEN SetTop([Top EXCEPT !.elems = Append(@, parseInt(token.value))])
                 ELSE UNCHANGED stack
            /\ UNCHANGED pc
       ELSE /\ position' = advance(tokens, position)
            /\ stack' = [SubSeq(stack, 1, chart) EXCEPT
                           ![chart].more = Append(@, [type |-> Top.name,
                                                      values |-> Top.elems])]
            /\ pc' = "parseXYChart"
  /\ UNCHANGED <<history, input, target, tokens, errors, linkCount, ast, result>>
  /\ Spin

(***************************************************************************)
(* Parser.parse returns; validateMermaid checks the target version.        *)
(***************************************************************************)
ParseReturn ==
  /\ pc = "return"
  /\ result' = ValidationResult(Len(errors) = 0, getDiagramType(tokens), errors, ast)
  /\ pc' = "version"
  /\ UNCHANGED <<history, input, target, tokens, position, errors, linkCount, stack, ast, spinning>>

VersionMismatch ==
  EntryDiagnostic("This validator was tested against another Mermaid version",
                  "VERSION_MISMATCH")

\* CheckVersion as it would be without the assignment to isValid
CheckVersionKeepsValid ==
  /\ pc = "version"
  /\ IF Truthy(target) /\ ~isMermaidVersionSupported(target)
       THEN Return([result EXCEPT !.errors = Append(@, VersionMismatch)])
       ELSE Return(result)
  /\ UNCHANGED <<history, input, target, tokens, position, errors, linkCount, stack, ast, spinning>>

\* CheckVersion as it would be if it put the mismatch in front of the diagnostics
CheckVersionUnshifts ==
  /\ pc = "version"
  /\ IF Truthy(target) /\ ~isMermaidVersionSupported(target)
       THEN Return([result EXCEPT !.errors = <<VersionMismatch>> \o @,
                                  !.isValid = FALSE])
       ELSE Return(result)
  /\ UNCHANGED <<history, input, target, tokens, position, errors, linkCount, stack, ast, spinning>>

CheckVersion ==
  /\ pc = "version"
  /\ IF Truthy(target) /\ ~isMermaidVersionSupported(target)
       THEN Return([result EXCEPT !.errors = Append(@, VersionMismatch),
                                  !.isValid = FALSE])
       ELSE Return(result)
  /\ UNCHANGED <<history, input, target, tokens, position, errors, linkCount, stack, ast, spinning>>

Next ==
  \/ ValidateInput
  \/ NewParser
  \/ ParseDiagram
  \/ FlowchartLoop
  \/ SubgraphLoop
  \/ SequenceLoop
  \/ ClassLoop
  \/ StateLoop
  \/ ConsumeLoop
  \/ BlockLoop
  \/ XYChartLoop
  \/ XAxisLoop
  \/ SeriesLoop
  \/ ParseReturn
  \/ CheckVersion

(***************************************************************************)
(* The calls the model makes.                                              *)
(***************************************************************************)
\* Values of mermaidCode that are not strings: null, undefined, 123
NonStrings == {NonStringInput("null"), NonStringInput("undefined"), NonStringInput("number")}

\* Strings without a token: '', '   ', '\n\t '
BlankStrings ==
  {StringInput(<<>>), StringInput(<<Item(Spaces(3), <<>>)>>),
   StringInput(<<Item(<<"\n", "\t", " ">>, <<>>)>>)}

\* Statements of a flowchart body: nodes, an arrow with its destination,
\* subgraph brackets and a sequence arrow, which no flowchart statement starts with
FlowWordings ==
  {<<"A">>, <<"B">>, <<"-->", "B">>, <<"subgraph", "S">>, <<"end">>, <<"->">>}

FlowDocs ==
  {Document(<<"flowchart", "TD">>, body) : body \in Bodies({Sp, Nl}, FlowWordings, MaxStmts)}

\* Links of the three kinds and linkStyle statements, one statement per line
LinkWordings ==
  {<<"A">>, <<"-->", "B">>, <<"-.->", "B">>, <<"==>", "B">>,
   <<"linkStyle", "0">>, <<"linkStyle", "1">>, <<"linkStyle", "2", ";">>}

LinkDocs ==
  {Document(<<"flowchart", "TD">>, body) : body \in Bodies({Nl}, LinkWordings, MaxStmts)}

\* The header words of the thirteen diagram types
HeaderWords ==
  {"flowchart", "graph", "sequenceDiagram", "classDiagram", "stateDiagram",
   "stateDiagram-v2", "erDiagram", "journey", "gantt", "pie", "gitGraph", "mindmap",
   "timeline", "xychart-beta", "block-beta"}

\* First words that are no header
OtherWords == {"foo", "A", "-->", "0", "end", "subgraph", "%%c", "title"}

\* One statement of each meta-statement name
MetaWordings ==
  {<<"classDef", "x", "fill", ":", "red">>, <<"class", "A", "x">>, <<"linkStyle", "0">>,
   <<"style", "A", "fill", ":", "red">>, <<"click", "A", "foo">>, <<"note", "for", "A">>,
   <<"direction", "TD">>, <<"title", "foo">>}

\* A header or another first word, after a directive or not, then meta statements
MetaDocs ==
  {prefix \o Document(<<first>>, body) :
     prefix \in {<<>>, <<Item(<<>>, <<"%%{x}%%">>)>>},
     first \in HeaderWords \cup OtherWords,
     body \in Bodies({Nl}, MetaWordings, MaxMeta)}

\* Statements of an xychart, with lists that are closed and lists that are not
ChartWordings ==
  {<<"title", "\"hi\"">>, <<"x-axis", "[", "A", ",", "B", "]">>, <<"x-axis", "[", "A">>,
   <<"bar", "[", "1", ",", "2", "]">>, <<"line", "[", "1">>}

ChartDocs ==
  {Document(<<"xychart-beta">>, body) : body \in Bodies({Nl}, ChartWordings, MaxMeta + 1)}

\* Statements of the sequence and block grammars
OtherDocs ==
  {Document(<<"sequenceDiagram">>, body) :
     body \in Bodies({Nl}, {<<"participant", "A">>, <<"A", "->>", "B", ":", "foo">>,
                            <<"participant">>}, MaxMeta + 1)}
  \cup {Document(<<"block-beta">>, body) :
          body \in Bodies({Nl}, {<<"columns", "2">>, <<"A", "[", "\"hi\"", "]">>, <<"B">>},
                          MaxMeta + 1)}

\* classDef statements with colon and with equals properties, one per line
ClassDefWordings ==
  {<<"classDef", "x", "fill", ":", "red">>, <<"classDef", "x", "fill", ":", "red", ";">>,
   <<"classDef", "x", "fill", "=", "red">>, <<"A">>}

ClassDefDocs ==
  {Document(<<"flowchart", "TD">>, body) : body \in Bodies({Nl}, ClassDefWordings, MaxStmts)}

\* Documents that start with white space: no token stands at line 1, column 1
IndentedDocs ==
  {<<Item(sep, header)>> \o body :
     sep \in {Sp, Nl},
     header \in {<<"xychart-beta">>, <<"flowchart", "TD">>},
     body \in Bodies({Sp}, {<<"A">>, <<"bar", "[", "1", ",", "2", "]">>}, MaxMeta + 1)}

\* Double-parentheses nodes under the headers of four grammars
ShapeWordings ==
  {<<"A", "((", "foo", "))">>, <<"participant", "B", "((", "foo", "))">>, <<"A">>}

ShapeDocs ==
  {Document(header, body) :
     header \in {<<"flowchart", "TD">>, <<"classDiagram">>, <<"stateDiagram-v2">>,
                 <<"sequenceDiagram">>},
     body \in Bodies({Nl}, ShapeWordings, MaxMeta + 1)}

\* Standalone note statements with three, one and no token after the keyword
NoteWordings ==
  {<<"note", "for", "A", ":", "foo">>, <<"note", "A", ":", "foo">>, <<"note", "A">>,
   <<"note">>, <<"B">>}

NoteDocs ==
  {Document(<<"flowchart", "TD">>, body) : body \in Bodies({Nl}, NoteWordings, MaxMeta + 1)}

\* Participants and messages of a sequence diagram: with text, with a colon
\* and no text, and without a colon
SequenceWordings ==
  {<<"participant", "A">>, <<"A", "->>", "B", ":", "foo">>, <<"A", "->>", "B", ":">>,
   <<"B", "-->>", "C">>, <<"C", "->>", "A", ":", "foo">>}

SequenceDocs ==
  {Document(<<"sequenceDiagram">>, body) : body \in Bodies({Nl}, SequenceWordings, MaxStmts)}

\* The styling statements of a flowchart and an `end' that closes nothing
StyledWordings == (MetaWordings \ {<<"direction", "TD">>}) \cup {<<"end">>}

StyledDocs ==
  {Document(<<"flowchart", "TD">>, body) : body \in Bodies({Nl}, StyledWordings, MaxMeta + 1)}

\* Tokens of every kind as the first statement of a subgraph body
BodyWords == {"->", "((", "))", "participant", "activate", "pie", "sequenceDiagram", "=", "A"}

BodyDocs ==
  {Document(<<"flowchart", "TD">>, <<Item(Nl, <<"subgraph", "S">>), Item(Nl, <<word>>)>> \o rest) :
     word \in BodyWords, rest \in {<<>>, <<Item(Nl, <<"end">>)>>}}

\* The four node shapes, and labels that are a quoted string or a run of
\* identifiers and numbers
ShapeBrackets == {<<"[", "]">>, <<"(", ")">>, <<"((", "))">>, <<"{", "}">>}

Labels == {<<"\"hi\"">>, <<"foo">>, <<"foo", "x">>, <<"foo", "1">>, <<"1">>}

LabelDocs ==
  {Document(<<"flowchart", "TD">>, <<Item(Nl, <<"A", shape[1]>> \o label \o <<shape[2]>>)>>) :
     shape \in ShapeBrackets, label \in Labels}

\* One arrow, labelled or not, and what may stand where its destination is
\* expected: nothing, an identifier, an arrow, punctuation, a number, a keyword
ArrowWords == {<<"-->">>, <<"-.->">>, <<"==>">>, <<"-->", "|", "foo", "|">>}

DestinationWords == {<<>>, <<"B">>, <<"-->">>, <<"[">>, <<";">>, <<"1">>, <<"pie">>, <<"subgraph">>}

ArrowDocs ==
  {Document(<<"flowchart", "TD">>, <<Item(Nl, <<"A">> \o arrow \o destination)>>) :
     arrow \in ArrowWords, destination \in DestinationWords}

\* A node whose shape is not closed after its label, and what the recovery
\* scan meets: the end of the input, a link of each kind, or the delimiter later
LinkWords == {"-->", "-.->", "==>"}

UnclosedDocs ==
  UNION {{Document(<<"flowchart", "TD">>, <<Item(Nl, <<"A", shape[1], "foo">> \o rest)>>) :
            rest \in {<<>>} \cup {<<link, "B">> : link \in LinkWords}
                     \cup {<<";", shape[2]>>}} :
         shape \in ShapeBrackets}

\* An identifier with an arrow written directly after it
GluedArrows == {"->", "->>", "-->", "-->>", "-.->", "==>"}

GluedDocs ==
  {Document(<<"flowchart", "TD">>, <<Item(Nl, <<x>>), Item(<<>>, <<arrow, "B">>)>>) :
     x \in {"A", "foo", "x"}, arrow \in GluedArrows}

\* Comments that start their line and comments behind a node, under the
\* headers of several grammars and inside a subgraph
CommentWordings == {<<"A", "%%c">>, <<"%%c">>, <<"A">>}

CommentHeaders ==
  {<<"flowchart", "TD">>, <<"sequenceDiagram">>, <<"classDiagram">>, <<"stateDiagram-v2">>,
   <<"pie">>}

CommentDocs ==
  {Document(header, body) :
     header \in CommentHeaders, body \in Bodies({Nl}, CommentWordings, MaxMeta + 1)}
  \cup {Document(<<"flowchart", "TD">>,
                 <<Item(Nl, <<"subgraph", "S">>), Item(Nl, words), Item(Nl, <<"end">>)>>) :
          words \in CommentWordings}

\* Links written with the four characters `==>>', spaced or not, among nodes,
\* click statements and subgraph brackets
DoubledWordings ==
  {<<"A", "==>>", "B">>, <<"A">>, <<"click", "A", "foo">>, <<"subgraph", "S">>, <<"end">>}

DoubledDocs ==
  {Document(<<"flowchart", "TD">>, body) : body \in Bodies({Nl}, DoubledWordings, MaxMeta + 1)}
  \cup {Document(<<"flowchart", "TD">>,
                 <<Item(Nl, <<"A">>), Item(<<>>, <<"==>>">>), Item(<<>>, <<"B">>)>>)}

\* A run of whitespace as long as the lexer's recursion can not take
DeepWhitespace == <<Item(<<>>, <<"flowchart", "TD">>), Item(Spaces(StackLimit - 3), <<"A">>)>>

\* Subgraphs nested one level deeper than the parser's recursion can take
DeepNesting ==
  Document(<<"flowchart", "TD">>,
           [i \in 1..((StackLimit - 4) \div 2 + 1) |-> Item(Nl, <<"subgraph", "S">>)])

DeepDocs == {DeepWhitespace, DeepNesting}

Documents ==
  FlowDocs \cup LinkDocs \cup MetaDocs \cup ChartDocs \cup OtherDocs \cup DeepDocs
  \cup ClassDefDocs \cup IndentedDocs \cup ShapeDocs
  \cup NoteDocs \cup SequenceDocs \cup StyledDocs \cup BodyDocs
  \cup LabelDocs \cup ArrowDocs \cup UnclosedDocs
  \cup GluedDocs \cup CommentDocs \cup DoubledDocs

Inputs == NonStrings \cup BlankStrings \cup {StringInput(doc) : doc \in Documents}

\* Values of targetMermaidVersion: absent, empty, the validated version, another
Targets == {"undefined", "", "11.12.0", "12.0.0"}

\* Every target is tried with the inputs that are no document, with the short
\* documents and with the deep ones; the longer documents are parsed without target
TargetsOf(in) ==
  IF in.kind # "string" \/ Len(in.doc) <= 2 \/ in.doc \in DeepDocs
    THEN Targets
    ELSE {"undefined"}

Init ==
  /\ input \in Inputs
  /\ target \in TargetsOf(input)
  /\ pc = "validateMermaid"
  /\ tokens = <<>>
  /\ position = 0
  /\ errors = <<>>
  /\ linkCount = 0
  /\ stack = <<>>
  /\ ast = NoAst
  /\ result = NoResult
  /\ spinning = FALSE
  /\ history = <<>>

Spec == Init /\ [][Next]_vars

(***************************************************************************)
(* Calls one after the other: when a call has returned, the caller makes   *)
(* the next one. Each call constructs its own Parser, and nothing else of  *)
(* the program outlives a call; what the variables hold from the call      *)
(* before is what a later call would find if it read before it wrote.      *)
(***************************************************************************)
\* One document for every grammar, with and without diagnostics
CallDocuments ==
  {Document(<<"flowchart", "TD">>,
            <<Item(Nl, <<"A">>), Item(Sp, <<"-->", "B">>), Item(Nl, <<"linkStyle", "1">>)>>),
   Document(<<"flowchart", "TD">>,
            <<Item(Nl, <<"subgraph", "S">>), Item(Nl, <<"A">>), Item(Sp, <<"-->", "B">>)>>),
   Document(<<"sequenceDiagram">>, <<Item(Nl, <<"participant">>)>>),
   Document(<<"classDiagram">>, <<Item(Nl, <<"style", "A", "fill", ":", "red">>)>>),
   Document(<<"stateDiagram">>, <<Item(Nl, <<"class", "A", "x">>)>>),
   Document(<<"pie">>, <<Item(Nl, <<"title", "foo">>)>>),
   Document(<<"block-beta">>, <<Item(Nl, <<"columns", "2">>)>>),
   Document(<<"xychart-beta">>,
            <<Item(Nl, <<"x-axis", "[", "A", ",", "B", "]">>),
              Item(Nl, <<"bar", "[", "1", ",", "2", "]">>)>>),
   Document(<<"foo">>, <<>>)}

\* The arguments of a call: the documents without target, and a non-string, a
\* blank string and a flowchart with a target of another version as well
CallArguments ==
  {<<StringInput(doc), "undefined">> : doc \in CallDocuments}
  \cup {<<in, "12.0.0">> :
          in \in {NonStringInput("null"), StringInput(<<>>),
                  StringInput(Document(<<"flowchart", "TD">>, <<Item(Nl, <<"end">>)>>))}}

InitCalls ==
  /\ \E call \in CallArguments : input = call[1] /\ target = call[2]
  /\ pc = "validateMermaid"
  /\ tokens = <<>>
  /\ position = 0
  /\ errors = <<>>
  /\ linkCount = 0
  /\ stack = <<>>
  /\ ast = NoAst
  /\ result = NoResult
  /\ spinning = FALSE
  /\ history = <<>>

\* The call has returned and the caller calls validateMermaid again
CallAgain ==
  /\ pc = "done"
  /\ Len(history) < MaxCalls - 1
  /\ history' = Append(history, [input |-> input, target |-> target, result |-> result])
  /\ \E call \in CallArguments : input' = call[1] /\ target' = call[2]
  /\ pc' = "validateMermaid"
  /\ UNCHANGED <<tokens, position, errors, linkCount, stack, ast, result, spinning>>

NextCalls ==
  \/ Next
  \/ CallAgain

SpecCalls == InitCalls /\ [][NextCalls]_vars

(***************************************************************************)
(* A flowchart, and then the same flowchart followed by the header of      *)
(* another diagram type and more lines.                                    *)
(***************************************************************************)
PortionWordings ==
  {<<"A">>, <<"A", "B">>, <<"-->", "B">>, <<"-->">>, <<"end">>, <<"linkStyle", "1">>,
   <<"subgraph", "S">>}

PortionDocs ==
  {Document(<<"flowchart", "TD">>, body) : body \in Bodies({Nl}, PortionWordings, MaxStmts)}

\* Headers of other diagram types
SecondHeaders == {"pie", "sequenceDiagram", "xychart-beta"}

\* What follows the second header: nothing, or lines a flowchart would reject
Rests == {<<>>, <<Item(Nl, <<"A", "B">>)>>, <<Item(Nl, <<"end">>)>>}

InitMixed ==
  /\ input \in {StringInput(doc) : doc \in PortionDocs \cup CallDocuments}
  /\ target = "undefined"
  /\ pc = "validateMermaid"
  /\ tokens = <<>>
  /\ position = 0
  /\ errors = <<>>
  /\ linkCount = 0
  /\ stack = <<>>
  /\ ast = NoAst
  /\ result = NoResult
  /\ spinning = FALSE
  /\ history = <<>>

\* After the call on a flowchart, the call on that flowchart continued
CallMixed ==
  /\ pc = "done"
  /\ history = <<>>
  /\ input.kind = "string"
  /\ Len(input.doc) > 0
  /\ input.doc[1] = Item(<<>>, <<"flowchart", "TD">>)
  /\ \A i \in 2..Len(input.doc) : input.doc[i].sep = Nl /\ input.doc[i].words \in PortionWordings
  /\ history' = <<[input |-> input, target |-> target, result |-> result]>>
  /\ \E header \in SecondHeaders, sep \in {Sp, Nl}, rest \in Rests :
       input' = StringInput(input.doc \o <<Item(sep, <<header>>)>> \o rest)
  /\ pc' = "validateMermaid"
  /\ UNCHANGED <<target, tokens, position, errors, linkCount, stack, ast, result, spinning>>

NextMixed ==
  \/ Next
  \/ CallMixed

SpecMixed == InitMixed /\ [][NextMixed]_vars

(***************************************************************************)
(* Properties.                                                             *)
(***************************************************************************)
\* validateMermaid has returned
Done == pc = "done"

\* The codes of the diagnostics of the result, in order
Codes == [i \in 1..Len(result.errors) |-> result.errors[i].code]

\* The number of diagnostics of the result with the given code
Count(code) == Cardinality({i \in 1..Len(result.errors) : result.errors[i].code = code})

\* The result carries an ast property
HasAst == result.ast.type # "none"

\* The words of a document, in order
RECURSIVE AllWords(_)
AllWords(doc) == IF Len(doc) = 0 THEN <<>> ELSE doc[1].words \o AllWords(Tail(doc))

\* The first word of the input that is not a directive ("" when there is none)
RECURSIVE FirstWord(_)
FirstWord(words) ==
  IF Len(words) = 0 THEN ""
  ELSE IF words[1] = "%%{x}%%" THEN FirstWord(Tail(words))
  ELSE words[1]

\* The diagram type each header word announces
TypeOfWord(word) ==
  CASE word \in {"flowchart", "graph"} -> "flowchart"
    [] word = "sequenceDiagram" -> "sequence"
    [] word = "classDiagram" -> "class"
    [] word \in {"stateDiagram", "stateDiagram-v2"} -> "state"
    [] word = "erDiagram" -> "er"
    [] word = "journey" -> "journey"
    [] word = "gantt" -> "gantt"
    [] word = "pie" -> "pie"
    [] word = "gitGraph" -> "gitgraph"
    [] word = "mindmap" -> "mindmap"
    [] word = "timeline" -> "timeline"
    [] word = "xychart-beta" -> "xychart"
    [] word = "block-beta" -> "block"
    [] OTHER -> "unknown"

\* The closed set of diagram types
DiagramTypes ==
  {"flowchart", "sequence", "class", "state", "er", "journey", "gantt", "pie", "gitgraph",
   "mindmap", "timeline", "xychart", "block", "unknown"}

\* The input is a string with at least one token
Parsable == input.kind = "string" /\ AllWords(input.doc) # <<>>

\* The input is no usable string: no string, or an empty or blank one
Unusable == input \in NonStrings \cup BlankStrings

\* The target names a version other than the validated one
Mismatch == Truthy(target) /\ target # validatedAgainst

\* C1: for every input string validateMermaid terminates and returns a result:
\* no loop of the call repeats an iteration that changes nothing.
C1_Terminates == input.kind = "string" => ~spinning

\* C2: the returned result has isValid exactly when it has no diagnostic, on
\* every path that returns.
C2_ValidIffNoErrors == Done => (result.isValid <=> Len(result.errors) = 0)

\* C2 witness: a diagram that parsed without diagnostic is returned invalid
\* with the version mismatch as its only diagnostic.
C2_Witness ==
  /\ Done
  /\ result.diagramType = "flowchart"
  /\ Codes = <<"VERSION_MISMATCH">>
  /\ ~result.isValid

\* C3 as stated: the type is in the closed set, it is the type announced by the
\* first non-directive token of every input, and the root of a present ast has it.
C3_Original ==
  Done =>
    /\ result.diagramType \in DiagramTypes
    /\ Parsable => result.diagramType = TypeOfWord(FirstWord(AllWords(input.doc)))
    /\ HasAst => result.ast.type = result.diagramType

\* C3: the type is in the closed set; whenever the parser returned an ast, the
\* type is the one announced by the first non-directive token and the root of
\* the ast has it; a result without ast has type unknown.
C3_TypeDecidedByHeader ==
  Done =>
    /\ result.diagramType \in DiagramTypes
    /\ HasAst => /\ result.diagramType = TypeOfWord(FirstWord(AllWords(input.doc)))
                 /\ result.ast.type = result.diagramType
    /\ ~HasAst => result.diagramType = "unknown"

\* C3 witness: a header after a directive decides the type and the root
C3_Witness ==
  /\ Done
  /\ input.kind = "string"
  /\ Len(input.doc) > 1
  /\ input.doc[1].words = <<"%%{x}%%">>
  /\ result.diagramType = "gantt"
  /\ result.ast.type = "gantt"

\* C4: an input that is no usable string gives exactly one diagnostic, type
\* unknown and no ast, without lexing: INVALID_INPUT_TYPE for a present
\* non-string, EMPTY_INPUT for null, undefined and blank strings.
C4_UnusableInput ==
  (Done /\ Unusable) =>
    /\ Len(result.errors) = 1
    /\ result.diagramType = "unknown"
    /\ ~HasAst
    /\ tokens = <<>>
    /\ Codes[1] = IF input.kind = "number" THEN "INVALID_INPUT_TYPE" ELSE "EMPTY_INPUT"

\* C5: when the first non-directive token is no header, the result has exactly
\* one diagnostic, with code UNSUPPORTED_DIAGRAM_TYPE, type unknown and an
\* unknown root.
C5_UnsupportedDiagramType ==
  (Done /\ Parsable /\ target = "undefined"
   /\ TypeOfWord(FirstWord(AllWords(input.doc))) = "unknown") =>
    /\ Codes = <<"UNSUPPORTED_DIAGRAM_TYPE">>
    /\ result.diagramType = "unknown"
    /\ result.ast.type = "unknown"

\* C6 as stated: with every input, a supplied target other than the validated
\* version ends the diagnostics with exactly one VERSION_MISMATCH.
C6_Original ==
  (Done /\ target \notin {"undefined", validatedAgainst}) =>
    /\ Count("VERSION_MISMATCH") = 1
    /\ Codes[Len(Codes)] = "VERSION_MISMATCH"
    /\ ~result.isValid

\* C6: once the lexer has run without failure, the version check turns the
\* result it is given (what the call returns without target) into the result
\* with one VERSION_MISMATCH appended and isValid false when the target is a
\* non-empty string other than the validated version, and returns it as it is
\* otherwise; inputs rejected before the parser never get a VERSION_MISMATCH.
C6_VersionAppend ==
  [][/\ pc = "version" =>
          result' = IF Mismatch
                      THEN [result EXCEPT !.errors = Append(@, VersionMismatch),
                                          !.isValid = FALSE]
                      ELSE result
     /\ (pc # "version" /\ pc' = "done") => Count("VERSION_MISMATCH")' = 0]_vars

\* C6 witness: a flowchart with a diagnostic of its own, returned for another
\* version
C6_Witness ==
  /\ Done
  /\ target = "12.0.0"
  /\ result.diagramType = "flowchart"
  /\ result.ast.type = "flowchart"
  /\ Len(Codes) = 2
  /\ Codes[1] # "VERSION_MISMATCH"
  /\ Codes[2] = "VERSION_MISMATCH"

\* The document is the flowchart header followed by statements of the given
\* wordings behind the given separators
FlowchartOf(doc, seps, wordings) ==
  /\ Len(doc) > 0
  /\ doc[1] = Item(<<>>, <<"flowchart", "TD">>)
  /\ \A i \in 2..Len(doc) : doc[i].sep \in seps /\ doc[i].words \in wordings

Larger(a, b) == IF a > b THEN a ELSE b

NodeWordings == {<<"A">>, <<"B">>}
ArrowWordings == {<<"-->", "B">>, <<"-.->", "B">>, <<"==>", "B">>}

\* A flowchart of nodes and arrows with destination at top level: the first
\* statement starts a line and every arrow follows its source on the same line
ConnectionDoc ==
  /\ input.kind = "string"
  /\ FlowchartOf(input.doc, {Sp, Nl}, FlowWordings)
  /\ Len(input.doc) > 1
  /\ input.doc[2].sep = Nl
  /\ input.doc[2].words \in NodeWordings
  /\ \A i \in 3..Len(input.doc) :
       \/ input.doc[i].words \in NodeWordings
       \/ input.doc[i].words \in ArrowWordings /\ input.doc[i].sep = Sp

\* The nodes that follow a node on their line without an arrow in between
AdjacentNodes(doc) ==
  {i \in 3..Len(doc) : /\ doc[i].sep = Sp
                       /\ doc[i].words \in NodeWordings
                       /\ doc[i - 1].words \in NodeWordings}

\* The nodes that follow the destination of an arrow on their line
NodesAfterDestination(doc) ==
  {i \in 3..Len(doc) : /\ doc[i].sep = Sp
                       /\ doc[i].words \in NodeWordings
                       /\ doc[i - 1].words \in ArrowWordings}

\* C7: every node that follows a node or the destination of an arrow on its
\* line without an arrow in between is reported with one MISSING_ARROW, and
\* nothing else is.
C7_MissingArrow ==
  (Done /\ ConnectionDoc) =>
    Count("MISSING_ARROW") = Cardinality(AdjacentNodes(input.doc))
                             + Cardinality(NodesAfterDestination(input.doc))

\* The index a linkStyle statement names
IndexOf(words) == CASE words[2] = "0" -> 0 [] words[2] = "1" -> 1 [] words[2] = "2" -> 2

\* The linkStyle statements from statement i on whose index is not below the
\* number of arrows before them, links being the number of arrows before i
RECURSIVE BadLinkStyles(_, _, _)
BadLinkStyles(doc, i, links) ==
  IF i > Len(doc) THEN 0
  ELSE IF doc[i].words \in ArrowWordings THEN BadLinkStyles(doc, i + 1, links + 1)
  ELSE IF doc[i].words[1] = "linkStyle"
    THEN (IF IndexOf(doc[i].words) >= links THEN 1 ELSE 0) + BadLinkStyles(doc, i + 1, links)
  ELSE BadLinkStyles(doc, i + 1, links)

\* The arrows of a document
Arrows(doc) == {i \in 2..Len(doc) : doc[i].words \in ArrowWordings}

LinkDoc == input.kind = "string" /\ FlowchartOf(input.doc, {Nl}, LinkWordings)

\* C8: a linkStyle statement is reported with INVALID_LINKSTYLE_INDEX exactly
\* when its index is not below the number of arrows before it, and the link
\* counter ends as the number of arrows.
C8_LinkStyleIndex ==
  (Done /\ LinkDoc) =>
    /\ Count("INVALID_LINKSTYLE_INDEX") = BadLinkStyles(input.doc, 2, 0)
    /\ linkCount = Cardinality(Arrows(input.doc))

\* A flowchart of nodes, arrows with destination, subgraph and end statements
BracketDoc ==
  /\ input.kind = "string"
  /\ FlowchartOf(input.doc, {Sp, Nl}, FlowWordings \ {<<"->">>})

\* The `end' statements from statement i on met while no subgraph is open
RECURSIVE UnmatchedEnds(_, _, _)
UnmatchedEnds(doc, i, open) ==
  IF i > Len(doc) THEN 0
  ELSE IF doc[i].words = <<"subgraph", "S">> THEN UnmatchedEnds(doc, i + 1, open + 1)
  ELSE IF doc[i].words = <<"end">>
    THEN IF open = 0 THEN 1 + UnmatchedEnds(doc, i + 1, 0)
         ELSE UnmatchedEnds(doc, i + 1, open - 1)
  ELSE UnmatchedEnds(doc, i + 1, open)

\* The subgraphs still open at the end of the input
RECURSIVE OpenAtEnd(_, _, _)
OpenAtEnd(doc, i, open) ==
  IF i > Len(doc) THEN open
  ELSE IF doc[i].words = <<"subgraph", "S">> THEN OpenAtEnd(doc, i + 1, open + 1)
  ELSE IF doc[i].words = <<"end">> /\ open > 0 THEN OpenAtEnd(doc, i + 1, open - 1)
  ELSE OpenAtEnd(doc, i + 1, open)

\* The deepest nesting of subgraphs in the statements from i on
RECURSIVE Nesting(_, _, _)
Nesting(doc, i, open) ==
  IF i > Len(doc) THEN open
  ELSE IF doc[i].words = <<"subgraph", "S">> THEN Nesting(doc, i + 1, open + 1)
  ELSE IF doc[i].words = <<"end">> /\ open > 0
    THEN Larger(open, Nesting(doc, i + 1, open - 1))
  ELSE Nesting(doc, i + 1, open)

\* The subgraph elements in a list of elements, nested ones included
RECURSIVE Subgraphs(_)
Subgraphs(elems) ==
  IF Len(elems) = 0 THEN 0
  ELSE (IF elems[1].type = "subgraph" THEN 1 + Subgraphs(elems[1].children) ELSE 0)
       + Subgraphs(Tail(elems))

\* The diagnostics of subgraph brackets and the subgraph elements match the input
BracketsReported ==
  /\ ~spinning
  /\ Done =>
       /\ Count("UNMATCHED_END") = UnmatchedEnds(input.doc, 2, 0)
       /\ Count("MISSING_SUBGRAPH_END") = OpenAtEnd(input.doc, 2, 0)
       /\ HasAst
       /\ Subgraphs(result.ast.body)
            = Cardinality({i \in 2..Len(input.doc) : input.doc[i].words = <<"subgraph", "S">>})

LegalIn(name) ==
  IF name \in {"classDef", "class"} THEN {"flowchart", "class", "state"} ELSE {"flowchart"}

\* The codes that reject a meta statement
Rejections ==
  {"UNSUPPORTED_STYLING_DIRECTIVE", "UNSUPPORTED_TITLE_DIRECTIVE", "INVALID_NOTE_SYNTAX"}

\* A diagram header followed by one meta statement
MetaDoc ==
  /\ input.kind = "string"
  /\ Len(input.doc) = 2
  /\ Len(input.doc[1].words) = 1
  /\ input.doc[1].words[1] \in HeaderWords
  /\ input.doc[2].words \in MetaWordings
  /\ target = "undefined"

\* C10: a meta statement that is not legal for the type of the diagram makes
\* the result invalid with UNSUPPORTED_STYLING_DIRECTIVE or the code of the
\* title or note statement, in every grammar.
C10_StylingLegality ==
  (Done /\ MetaDoc /\ TypeOfWord(input.doc[1].words[1]) \notin LegalIn(input.doc[2].words[1])) =>
    /\ ~result.isValid
    /\ \E i \in 1..Len(Codes) : Codes[i] \in Rejections

\* The lines of the diagnostics of the result with the given code
LinesOf(code) ==
  {result.errors[i].line : i \in {j \in 1..Len(result.errors) : result.errors[j].code = code}}

\* A word occurs in a statement
Has(words, word) == \E k \in 1..Len(words) : words[k] = word

\* A flowchart of classDef statements and nodes, one statement per line:
\* statement i of the document is on line i
ClassDefDoc == input.kind = "string" /\ FlowchartOf(input.doc, {Nl}, ClassDefWordings)

\* The classDef statements whose own property list contains an `='
EqualsClassDefs(doc) ==
  {i \in 2..Len(doc) : doc[i].words[1] = "classDef" /\ Has(doc[i].words, "=")}

\* C11: a classDef statement is reported with UNSUPPORTED_CLASSDEF_EQUALS_SYNTAX
\* exactly when its own property list contains an `=': the diagnostics of that
\* code are one for each such statement, on its line, whatever follows it.
C11_ClassDefEquals ==
  (Done /\ ClassDefDoc) =>
    /\ LinesOf("UNSUPPORTED_CLASSDEF_EQUALS_SYNTAX") = EqualsClassDefs(input.doc)
    /\ Count("UNSUPPORTED_CLASSDEF_EQUALS_SYNTAX") = Cardinality(EqualsClassDefs(input.doc))

\* C12: a call returns the result that every earlier call with the same input
\* and the same target returned, whatever was validated in between.
C12_SameResult ==
  Done =>
    \A i \in 1..Len(history) :
      (history[i].input = input /\ history[i].target = target) => history[i].result = result

\* C12 witness: a flowchart with a linkStyle diagnostic is validated again
\* after another flowchart that left diagnostics and links behind
C12_Witness ==
  /\ Done
  /\ Len(history) = 2
  /\ history[1].input = input
  /\ history[1].target = target
  /\ history[2].input # input
  /\ history[2].result.diagramType = "flowchart"
  /\ history[2].result.errors # <<>>
  /\ Codes = <<"INVALID_LINKSTYLE_INDEX">>

\* Some token of the tokenization stands at the place of the diagnostic
AtToken(diagnostic) ==
  \E k \in 1..Len(tokens) :
    tokens[k].line = diagnostic.line /\ tokens[k].column = diagnostic.column

\* The parser produced the result: the lexer returned tokens and no version
\* check added a diagnostic
ParserResult == Done /\ tokens # <<>> /\ target = "undefined"

\* C13: every diagnostic of a result produced by the parser has the line and
\* column of some token of the tokenization of the input.
C13_DiagnosticsAtTokens ==
  ParserResult => \A i \in 1..Len(result.errors) : AtToken(result.errors[i])

\* The parser returned the root of an xychart
ChartResult == Done /\ HasAst /\ result.diagramType = "xychart"

\* An xychart whose statements all end on their line: lists are closed
ClosedChartDoc ==
  /\ input.kind = "string"
  /\ Len(input.doc) > 0
  /\ input.doc[1] = Item(<<>>, <<"xychart-beta">>)
  /\ \A i \in 2..Len(input.doc) :
       /\ input.doc[i].sep = Nl
       /\ input.doc[i].words \in ChartWordings
       /\ Has(input.doc[i].words, "[") => Has(input.doc[i].words, "]")

\* The bar and line statements of a document
SeriesStatements(doc) == {i \in 2..Len(doc) : doc[i].words[1] \in {"bar", "line"}}

\* C14: an xychart has exactly one MISSING_DATA diagnostic when no bar or line
\* series was parsed and none as soon as one was: the root then holds the
\* series, and among statements with closed lists every bar or line statement
\* is one.
C14_MissingData ==
  ChartResult =>
    /\ Count("MISSING_DATA") = IF Len(result.ast.body.data) = 0 THEN 1 ELSE 0
    /\ ClosedChartDoc =>
         Len(result.ast.body.data) = Cardinality(SeriesStatements(input.doc))

\* C14 witness: a chart with an x-axis and one bar series, and no diagnostic
C14_Witness ==
  /\ ChartResult
  /\ ClosedChartDoc
  /\ result.isValid
  /\ result.ast.body.xAxis # <<>>
  /\ Len(result.ast.body.data) = 1
  /\ result.ast.body.data[1].values = <<1, 2>>

\* The input holds a double-parentheses token
DoubleParens ==
  /\ input.kind = "string"
  /\ Has(AllWords(input.doc), "((") \/ Has(AllWords(input.doc), "))")

\* C15: in a class diagram, a state diagram or a sequence diagram any `((' or
\* `))' token makes the result invalid.
C15_DoubleParens ==
  (Done /\ DoubleParens /\ result.diagramType \in {"class", "state", "sequence"})
    => ~result.isValid

\* A flowchart of note statements and nodes, one statement per line
NoteDoc == input.kind = "string" /\ FlowchartOf(input.doc, {Nl}, NoteWordings)

\* The statements of a document that start with the keyword note
NoteStatements(doc) == {i \in 2..Len(doc) : doc[i].words[1] = "note"}

\* C16: a flowchart with a standalone note statement, whatever the number of
\* tokens after the keyword, has an INVALID_NOTE_SYNTAX diagnostic.
C16_NoteRejected ==
  (Done /\ NoteDoc /\ NoteStatements(input.doc) # {}) => Count("INVALID_NOTE_SYNTAX") >= 1

\* A sequence diagram of participants and messages, one statement per line
SequenceDoc ==
  /\ input.kind = "string"
  /\ Len(input.doc) > 0
  /\ input.doc[1] = Item(<<>>, <<"sequenceDiagram">>)
  /\ \A i \in 2..Len(input.doc) :
       input.doc[i].sep = Nl /\ input.doc[i].words \in SequenceWordings

\* The names the participant statements of the root declare
Declared == {result.ast.body.participants[i].name : i \in 1..Len(result.ast.body.participants)}

Continued == Done /\ Len(history) = 1

\* The parser was left at the header of another diagram type
StoppedAtHeader ==
  /\ position < Len(tokens)
  /\ tokens[position + 1].type \in diagramTypes

\* The statements before the second header are nodes and `end' lines: each is
\* over at the end of its line
PlainPortion ==
  \A i \in 2..Len(history[1].input.doc) :
    history[1].input.doc[i].words \in {<<"A">>, <<"A", "B">>, <<"end">>}

MessageStatements(doc) ==
  {i \in 2..Len(doc) : Len(doc[i].words) >= 3 /\ doc[i].words[2] \in {"->>", "-->>"}}

\* The text a message statement has after its colon
TextOf(words) == IF Len(words) = 5 THEN Str(words[5]) ELSE <<>>

\* C19: in a sequence diagram every `from arrow to' line yields its own
\* message, whose text is made of the tokens of that line only: the root holds
\* one message per message line, with the text of that line.
C19_MessagePerLine ==
  (Done /\ SequenceDoc /\ HasAst) =>
    /\ Len(result.ast.body.messages) = Cardinality(MessageStatements(input.doc))
    /\ \A k \in 1..Len(result.ast.body.messages) :
         \E i \in MessageStatements(input.doc) :
           /\ result.ast.body.messages[k].line = i
           /\ result.ast.body.messages[k].message = TextOf(input.doc[i].words)

\* A flowchart of styling statements and `end' lines, one statement per line
StyledDoc == input.kind = "string" /\ FlowchartOf(input.doc, {Nl}, StyledWordings)

\* The lines of a document that are an `end'
EndLines(doc) == {i \in 2..Len(doc) : doc[i].words = <<"end">>}

\* C20: a styling statement of a flowchart consumes the tokens of its own line
\* only, so the lines after it are parsed: an `end' on a line of its own, which
\* closes no subgraph, is reported as UNMATCHED_END on its line whether or not
\* a styling statement precedes it.
C20_StylingEndsWithLine ==
  (Done /\ StyledDoc) => LinesOf("UNMATCHED_END") = EndLines(input.doc)

\* C21: every iteration of the body loop of parseSubgraph consumes a token,
\* ends the loop or leaves it through an exception.
C21_SubgraphProgress ==
  [][pc = "parseSubgraph" =>
       \/ position' > position
       \/ Len(stack') < Len(stack)
       \/ pc' # "parseSubgraph"]_vars

\* C22: the scans of the bracketed lists of an xychart stop at the end of the
\* input: every iteration of a scan consumes a token or ends the scan.
C22_ListScansStop ==
  [][(pc = "x-axis list" \/ pc = "series list") =>
       (position' > position \/ pc' = "parseXYChart")]_vars

\* The 1-based indices of the line breaks before the character at index p
BreaksBefore(text, p) == {k \in 1..p : text[k] = "\n"}

\* The 1-based line of the character at the 0-based index p
LineAt(text, p) == 1 + Cardinality(BreaksBefore(text, p))

\* The 1-based column of the character at the 0-based index p
ColumnAt(text, p) ==
  IF BreaksBefore(text, p) = {} THEN p + 1
  ELSE p - (CHOOSE k \in BreaksBefore(text, p) : \A j \in BreaksBefore(text, p) : j <= k) + 1

\* The token stands in the text at its position, with the line and column of
\* its first character
PlacedAtStart(text, token) ==
  /\ Slice(text, token.position, token.position + Len(token.value)) = token.value
  /\ token.line = LineAt(text, token.position)
  /\ token.column = ColumnAt(text, token.position)

\* C23: every token of the lexer carries the 0-based position, the line and
\* the column of its first character.
C23_TokenPositions ==
  (Done /\ input.kind = "string") =>
    \A i \in 1..Len(tokens) :
      tokens[i].type # "EOF" => PlacedAtStart(Text(input.doc), tokens[i])

\* A flowchart of one node, written with a shape and a label
LabelDoc ==
  /\ input.kind = "string"
  /\ Len(input.doc) = 2
  /\ input.doc[1] = Item(<<>>, <<"flowchart", "TD">>)
  /\ input.doc[2].sep = Nl
  /\ \E shape \in ShapeBrackets, label \in Labels :
       input.doc[2].words = <<"A", shape[1]>> \o label \o <<shape[2]>>

\* C24: a node whose label is a quoted string or a run of identifiers and
\* numbers is parsed without diagnostic in each of the four shapes.
C24_ShapesAcceptLabels ==
  (Done /\ LabelDoc) => \A i \in 1..Len(result.errors) : result.errors[i].code = "VERSION_MISMATCH"

\* A flowchart of one node and one arrow with what follows it
ArrowDoc ==
  /\ input.kind = "string"
  /\ Len(input.doc) = 2
  /\ input.doc[1] = Item(<<>>, <<"flowchart", "TD">>)
  /\ input.doc[2].sep = Nl
  /\ \E arrow \in ArrowWords, destination \in DestinationWords :
       input.doc[2].words = <<"A">> \o arrow \o destination

\* The arrow elements of the root of a flowchart
ArrowElements == {i \in 1..Len(result.ast.body) : result.ast.body[i].type = "arrow"}

\* C25: an arrow at the end of the input is reported as INCOMPLETE_ARROW and
\* still appended without destination; every other arrow has the id of an
\* identifier token as its destination, or a diagnostic is reported.
C25_ArrowDestination ==
  (Done /\ ArrowDoc /\ HasAst /\ target = "undefined") =>
    /\ ArrowElements # {}
    /\ \A i \in ArrowElements :
         IF result.ast.body[i].to = Undefined
           THEN Count("INCOMPLETE_ARROW") = 1
           ELSE result.ast.body[i].to = Str("B") \/ Len(result.errors) > 0

\* A flowchart of one node whose shape is not closed after its label
UnclosedDoc ==
  /\ input.kind = "string"
  /\ Len(input.doc) = 2
  /\ input.doc[1] = Item(<<>>, <<"flowchart", "TD">>)
  /\ input.doc[2].sep = Nl
  /\ Len(input.doc[2].words) >= 3
  /\ SubSeq(input.doc[2].words, 1, 3) \in {<<"A", shape[1], "foo">> : shape \in ShapeBrackets}
  /\ (Len(input.doc[2].words) > 3 => input.doc[2].words[4] \in LinkWords \cup {";"})

\* C26: a node without its closing delimiter gets exactly one diagnostic, and
\* the recovery scan leaves the next arrow, plain, dotted or thick, to the
\* parser: the link is parsed, with its destination, and counted.
C26_RecoveryScan ==
  (Done /\ UnclosedDoc /\ target = "undefined") =>
    /\ Codes = <<"PARSE_ERROR">>
    /\ Has(input.doc[2].words, ";") => (ArrowElements = {} /\ Len(result.ast.body) = 1)
    /\ (Len(input.doc[2].words) > 3 /\ input.doc[2].words[4] \in LinkWords) =>
         /\ linkCount = 1
         /\ \E i \in ArrowElements : result.ast.body[i].to = Str("B")

\* A flowchart whose body is an identifier directly followed by an arrow
GluedDoc ==
  /\ input.kind = "string"
  /\ Len(input.doc) = 3
  /\ input.doc[1] = Item(<<>>, <<"flowchart", "TD">>)
  /\ input.doc[2].sep = Nl
  /\ Len(input.doc[2].words) = 1
  /\ input.doc[3].sep = <<>>
  /\ Len(input.doc[3].words) = 2
  /\ input.doc[3].words[1] \in GluedArrows

\* The same document with a space between the identifier and the arrow
Spaced(doc) == [doc EXCEPT ![3].sep = Sp]

\* The types and texts of a token list
Texts(toks) == [i \in 1..Len(toks) |-> <<toks[i].type, toks[i].value>>]

\* C27: an identifier directly followed by an arrow is tokenized into the
\* same identifier and the same arrow as with a space between them.
C27_ArrowNotAbsorbed ==
  (Done /\ GluedDoc) => Texts(tokens) = Texts(tokenize(Text(Spaced(input.doc))).tokens)

\* A diagram of nodes and comments, one statement per line, the body inside
\* a subgraph or not
CommentDoc ==
  /\ input.kind = "string"
  /\ Len(input.doc) > 0
  /\ input.doc[1].sep = <<>>
  /\ input.doc[1].words \in CommentHeaders
  /\ \A i \in 2..Len(input.doc) :
       /\ input.doc[i].sep = Nl
       /\ input.doc[i].words \in CommentWordings \cup {<<"subgraph", "S">>, <<"end">>}

\* The lines on which a comment stands behind another token
InlineComments(doc) == {i \in 2..Len(doc) : doc[i].words = <<"A", "%%c">>}

\* C28: in every grammar and inside subgraphs, INLINE_COMMENT_NOT_SUPPORTED is
\* reported for exactly the comments that another token precedes on their line.
C28_InlineComments ==
  (Done /\ CommentDoc) =>
    LinesOf("INLINE_COMMENT_NOT_SUPPORTED") = InlineComments(input.doc)

\* A flowchart of nodes, click statements, subgraph brackets and `A ==>> B'
\* statements
DoubledDoc ==
  /\ input.kind = "string"
  /\ FlowchartOf(input.doc, {Nl, <<>>}, DoubledWordings \cup {<<"==>>">>, <<"B">>})
  /\ Has(AllWords(input.doc), "==>>")

\* No token of a thick arrow stands where the text reads `==>>'
NoDoubledThickToken ==
  \A i \in 1..Len(tokens) :
    tokens[i].type = "THICK_ARROW" =>
      /\ tokens[i].value = Str("==>")
      /\ CharAt(Text(input.doc), tokens[i].position + 3) # ">"

\* C29: the lexer emits no thick arrow for the characters `==>>' but two
\* equals tokens and the rest, and a flowchart with a statement `A ==>> B' is
\* not valid.
C29_NoDoubledThickArrow ==
  (Done /\ input.kind = "string") =>
    /\ NoDoubledThickToken
    /\ DoubledDoc => ~result.isValid

\* The same where no click statement stands in the flowchart
NoDoubledThickArrowWithoutClick ==
  (Done /\ input.kind = "string") =>
    /\ NoDoubledThickToken
    /\ (DoubledDoc /\ ~Has(AllWords(input.doc), "click")) => ~result.isValid

\* The elements of a list and of the child lists below it have the types of a
\* FlowchartElement
RECURSIVE ElementTypes(_)
ElementTypes(elems) ==
  \A i \in 1..Len(elems) :
    /\ elems[i].type \in {"node", "arrow", "subgraph"}
    /\ ElementTypes(elems[i].children)

\* C30: every element of a flowchart AST, at top level and in the child list
\* of every subgraph, is a node, an arrow or a subgraph; comments, directives,
\* styling statements and unmatched `end's are no elements.
C30_ElementTypes ==
  (Done /\ HasAst /\ result.ast.type = "flowchart") => ElementTypes(result.ast.body)

\* The same for the top-level list alone
TopLevelElementTypes ==
  (Done /\ HasAst /\ result.ast.type = "flowchart") =>
    \A i \in 1..Len(result.ast.body) : result.ast.body[i].type \in {"node", "arrow", "subgraph"}
=============================================================================
